---- MODULE Spec2Model ----
(***************************************************************************)
(* Model of the multi-file edit workflow of the ZENITH code editor backend *)
(* (backend/agents/workflow.py, class MultiFileEditWorkflow) together with *)
(* the collaborators it reads: the retriever (services/rag_service.py),    *)
(* the structure service (services/tree_sitter_service.py), the completion *)
(* service and the filesystem.                                             *)
(*                                                                         *)
(* Text is modelled as a sequence of atoms.  An atom is either one of the  *)
(* characters the code inspects ("[", "]", ",", a quote, a blank, "/") or  *)
(* a run of other characters ("a.py", "think").  Python values are tagged  *)
(* records [t, v] so that lists of mixed element types can be compared.    *)
(***************************************************************************)
EXTENDS Integers, Sequences, FiniteSets, TLC

\* ------------------------------------------------------------------------
\* Bounds of the model
\* ------------------------------------------------------------------------
MaxFiles == 2
MaxDocs == 2
MaxChunks == 4
MaxText == 2
MaxBlocks == 2
MaxFenceChunks == 4

\* ------------------------------------------------------------------------
\* Python values
\* ------------------------------------------------------------------------
PyStr(s) == [t |-> "str", v |-> s]
PyList(xs) == [t |-> "list", v |-> xs]
PyNum(ds) == [t |-> "num", v |-> ds]
PyNone == [t |-> "none", v |-> <<>>]

IsStr(x) == x.t = "str"
IsList(x) == x.t = "list"

\* Python truthiness of a value (used by "if not target_files", "if source")
Truthy(x) ==
  CASE x.t = "none" -> FALSE
    [] x.t = "num" -> TRUE
    [] OTHER -> Len(x.v) > 0

\* ------------------------------------------------------------------------
\* Generic sequence helpers
\* ------------------------------------------------------------------------
Range(s) == {s[i] : i \in 1..Len(s)}

SeqsUpTo(S, n) == UNION {[1..k -> S] : k \in 0..n}

\* all orders in which list(set) may enumerate the set S
Orderings(S) ==
  {s \in [1..Cardinality(S) -> S] : \A i, j \in 1..Cardinality(S) : i # j => s[i] # s[j]}

RECURSIVE Concat(_)
Last(s) == s[Len(s)]

NoDuplicates(s) == \A i, j \in 1..Len(s) : i # j => s[i] # s[j]

Concat(ss) == IF ss = <<>> THEN <<>> ELSE Head(ss) \o Concat(Tail(ss))

\* "\n".join(lines)
RECURSIVE JoinLines(_)
JoinLines(lines) ==
  IF lines = <<>> THEN <<>>
  ELSE IF Len(lines) = 1 THEN lines[1]
  ELSE lines[1] \o <<"\n">> \o JoinLines(Tail(lines))

\* ------------------------------------------------------------------------
\* Filesystem paths
\* ------------------------------------------------------------------------
FileNames == {<<"a.py">>, <<"b.py">>}
IndexedRoot == <<"proj">>

\* os.path.join(root, source) for a relative source
PathJoin(root, source) ==
  IF Len(source) > 0 /\ source[1] = "/" THEN source ELSE root \o <<"/">> \o source

\* os.path.isabs
IsAbs(p) == Len(p) > 0 /\ p[1] = "/"

\* os.path.basename: the text after the last "/"
RECURSIVE Basename(_)
Basename(p) ==
  IF \E i \in 1..Len(p) : p[i] = "/"
  THEN Basename(Tail(p))
  ELSE p

Paths == FileNames \cup {PathJoin(IndexedRoot, n) : n \in FileNames}

\* ------------------------------------------------------------------------
\* State
\* ------------------------------------------------------------------------
VARIABLES
  disk,              \* the set of paths that exist on the filesystem
  unreadable,        \* existing paths whose open()/read() raises
  rag_service,       \* the retriever: present, current_indexed_path, docs
  tree_sitter_service, \* "none", or the set of languages with a parser
  node,              \* the graph node being executed ("idle", "END", ...)
  pc,                \* the position inside the node
  state,             \* the EditState of the invocation
  discovered_files,  \* local of _analyze_context
  rag_context,       \* local of _analyze_context
  sources,           \* the sources of search_result not yet visited
  analysis_results,  \* local of _analyze_context
  content,           \* local of _generate_content: the stripped Phase A response
  target_files,      \* local of _generate_content
  edits,             \* local of _generate_content
  idx,               \* position of the running for loop
  result,            \* the value returned by run
  log,               \* what logger.error recorded, in order
  trace,             \* history: stage enter/exit/raise events
  attempted,         \* history: targets whose Phase B iteration began
  given,             \* history: the files argument of run
  generated,         \* history: the generated_text of each finished iteration
  running,           \* the invocation of run whose locals the variables above hold
  suspended,         \* the locals of the other invocation, when there is one
  rag_history,       \* history: the calls of reset_index and index_codebase
  syntax_tree,       \* the language and root node handed to _extract_structure
  extracted          \* what _extract_structure returned for syntax_tree

vars == <<disk, unreadable, rag_service, tree_sitter_service, node, pc, state,
          discovered_files, rag_context, sources, analysis_results, content,
          target_files, edits, idx, result, log, trace, attempted, given, generated,
          running, suspended, rag_history, syntax_tree, extracted>>

\* what no stage of an invocation assigns
env == <<disk, unreadable, rag_service, tree_sitter_service,
         running, suspended, rag_history, syntax_tree, extracted>>

\* ------------------------------------------------------------------------
\* The compiled graph (_create_workflow)
\* ------------------------------------------------------------------------
EntryPoint == "analyze_context"

\* a graph whose last stage leads back into the planner
EdgesReenter ==
  [analyze_context |-> "plan_changes",
   plan_changes |-> "generate_content",
   generate_content |-> "plan_changes"]

Edges ==
  [analyze_context |-> "plan_changes",
   plan_changes |-> "generate_content",
   generate_content |-> "END"]

Stages == DOMAIN Edges

Event(e, n) == [ev |-> e, node |-> n]

\* ------------------------------------------------------------------------
\* The retriever (RAGService)
\* ------------------------------------------------------------------------
DocNames == FileNames \cup {<<"unknown">>}

\* the sources list of query_with_context: file names in order of first
\* occurrence
RECURSIVE DedupSources(_, _)
DedupSources(docs, acc) ==
  IF docs = <<>> THEN acc
  ELSE DedupSources(Tail(docs),
         IF Head(docs) \in Range(acc) THEN acc ELSE Append(acc, Head(docs)))

RECURSIVE ContextParts(_)
ContextParts(docs) ==
  IF docs = <<>> THEN <<>>
  ELSE <<<<"File: ">> \o Head(docs) \o <<"\n", "Content:", "\n", "chunk", "\n", "---">>>>
       \o ContextParts(Tail(docs))

query_with_context(docs) ==
  IF docs = <<>>
  THEN [context |-> PyStr(<<>>), sources |-> <<>>]
  ELSE [context |-> PyStr(JoinLines(ContextParts(docs))),
        sources |-> DedupSources(docs, <<>>)]

\* ------------------------------------------------------------------------
\* Filesystem reads
\* ------------------------------------------------------------------------
\* os.path.exists of a string
Exists(p) == p \in disk

\* ------------------------------------------------------------------------
\* Initial state: the services are constructed, a request is about to arrive
\* ------------------------------------------------------------------------
NoState ==
  [task |-> PyNone, files |-> PyNone, plan |-> PyNone, edits |-> PyNone,
   analysis |-> PyNone, messages |-> <<>>]

NoResult == [returned |-> FALSE]

NoRetriever == [present |-> FALSE, current_indexed_path |-> PyNone, docs |-> <<>>]

Retriever(root, docs) == [present |-> TRUE, current_indexed_path |-> root, docs |-> docs]

TreeSitterConfigs == {"none", "no_parsers", "python"}

\* what the endpoint may pass as files: a list of path strings, or no list
FilesArguments(paths) == {PyList(fs) : fs \in SeqsUpTo({PyStr(p) : p \in paths}, MaxFiles)} \cup {PyNone}

NoInvocation == [id |-> 0]

NoTree == [language |-> "none"]

\* one invocation, a retriever nobody has called yet, nothing parsed
Alone ==
  /\ running = 1
  /\ suspended = NoInvocation
  /\ rag_history = <<>>
  /\ syntax_tree = NoTree
  /\ extracted = PyNone

\* the workflow object right after __init__, before run is called
Idle ==
  /\ node = "idle"
  /\ pc = "idle"
  /\ state = NoState
  /\ discovered_files = {}
  /\ rag_context = PyStr(<<>>)
  /\ sources = <<>>
  /\ analysis_results = <<>>
  /\ content = PyNone
  /\ target_files = PyList(<<>>)
  /\ edits = <<>>
  /\ idx = 0
  /\ result = NoResult
  /\ log = <<>>
  /\ trace = <<>>
  /\ attempted = <<>>
  /\ generated = <<>>

\* a project with a.py in the working directory and possibly b.py under the
\* indexed root; the request names files of the working directory
Init ==
  /\ disk \in {{<<"a.py">>}, {<<"a.py">>, PathJoin(IndexedRoot, <<"b.py">>)}}
  /\ unreadable \in SUBSET (disk \cap {<<"a.py">>})
  /\ rag_service \in {NoRetriever, Retriever(PyStr(IndexedRoot), <<<<"b.py">>>>)}
  /\ tree_sitter_service \in TreeSitterConfigs
  /\ given \in FilesArguments(FileNames)
  /\ Idle
  /\ Alone

\* ------------------------------------------------------------------------
\* run: creation of the EditState and invocation of the graph (lines 648-662)
\* ------------------------------------------------------------------------
TaskText == <<"task">>

\* the task of each request
TaskOf(id) == IF id = 1 THEN TaskText ELSE <<"other task">>

EditState(task, files) ==
  [task |-> task, files |-> files, plan |-> PyStr(<<>>), edits |-> PyList(<<>>),
   analysis |-> PyStr(<<>>), messages |-> <<>>]

Run ==
  /\ node = "idle"
  /\ state' = EditState(PyStr(TaskOf(running)), given)
  /\ node' = EntryPoint
  /\ pc' = "enter"
  /\ UNCHANGED <<env, discovered_files, rag_context, sources, analysis_results,
                 content, target_files, edits, idx, result, trace, log, attempted, given, generated>>

LogEntry(msg, e) == [msg |-> msg, exc |-> e]

\* an except branch that hands out the edits generated before the failure
FailureResultPartial(e) ==
  [returned |-> TRUE, success |-> FALSE, error |-> e, edits |-> PyList(edits)]

\* the except branch of run (lines 672-680)
FailureResult(e) ==
  [returned |-> TRUE, success |-> FALSE, error |-> e, edits |-> PyList(<<>>)]

\* the return of run after the graph finished (lines 664-670)
SuccessResult(final_state) ==
  [returned |-> TRUE, success |-> TRUE, analysis |-> final_state.analysis,
   plan |-> final_state.plan, edits |-> final_state.edits,
   summary |-> <<"Generated ", Len(final_state.edits.v), " edits">>]

\* an exception leaves the running stage and reaches the except of run
Raise(e) ==
  /\ result' = FailureResult(e)
  /\ log' = Append(log, LogEntry("Multi-file workflow error", e))
  /\ node' = "END"
  /\ pc' = "done"

\* ------------------------------------------------------------------------
\* _analyze_context (lines 397-469)
\* ------------------------------------------------------------------------
\* a discovery that keeps only the path it has just found
DiscoverSourceOnly(files, source, root) ==
  IF Len(source) > 0 /\ source # <<"unknown">>
     /\ (Exists(source) \/ (Truthy(root) /\ Exists(PathJoin(root.v, source))))
  THEN IF Truthy(root) /\ ~IsAbs(source)
       THEN {PyStr(PathJoin(root.v, source))}
       ELSE {PyStr(source)}
  ELSE files

\* a discovery that adds a source without looking for it on disk
DiscoverSourceUnchecked(files, source, root) ==
  IF Len(source) > 0 /\ source # <<"unknown">>
  THEN IF Truthy(root) /\ ~IsAbs(source)
       THEN files \cup {PyStr(PathJoin(root.v, source))}
       ELSE files \cup {PyStr(source)}
  ELSE files

\* lines 415-424: what one source of the retriever adds to discovered_files
DiscoverSource(files, source, root) ==
  IF Len(source) > 0 /\ source # <<"unknown">>
  THEN IF Exists(source) \/ (Truthy(root) /\ Exists(PathJoin(root.v, source)))
       THEN IF Truthy(root) /\ ~IsAbs(source)
            THEN files \cup {PyStr(PathJoin(root.v, source))}
            ELSE files \cup {PyStr(source)}
       ELSE files
  ELSE files

\* lines 402-405
AnalyzeBegin ==
  /\ node = "analyze_context" /\ pc = "enter"
  /\ IF IsList(state.files)
     THEN /\ trace' = Append(trace, Event("enter", node))
          /\ discovered_files' = Range(state.files.v)
          /\ rag_context' = PyStr(<<>>)
          /\ pc' = IF rag_service.present THEN "rag_query" ELSE "store_files"
          /\ UNCHANGED <<node, result, log>>
     ELSE /\ trace' = trace \o <<Event("enter", node), Event("raise", node)>>
          /\ Raise(<<"TypeError">>)
          /\ UNCHANGED <<discovered_files, rag_context>>
  /\ UNCHANGED <<env, state, sources, analysis_results, content, target_files, edits, idx,
                 attempted, given, generated>>

\* lines 409-410, and the except of line 428 when the call raises
AnalyzeRagQuery ==
  /\ node = "analyze_context" /\ pc = "rag_query"
  /\ \/ /\ pc' = "store_files"
        /\ log' = Append(log, LogEntry("RAG discovery failed", <<"query">>))
        /\ UNCHANGED <<rag_context, sources>>
     \/ LET search_result == query_with_context(rag_service.docs)
        IN /\ rag_context' = search_result.context
           /\ sources' = search_result.sources
           /\ pc' = IF search_result.sources = <<>> THEN "store_files" ELSE "rag_loop"
           /\ UNCHANGED log
  /\ UNCHANGED <<env, node, state, discovered_files, analysis_results, content, target_files,
                 edits, idx, result, trace, attempted, given, generated>>

\* one iteration of the loop of lines 413-424, or an exception inside it
AnalyzeRagSource ==
  /\ node = "analyze_context" /\ pc = "rag_loop"
  /\ \/ /\ pc' = "store_files"
        /\ sources' = <<>>
        /\ log' = Append(log, LogEntry("RAG discovery failed", <<"source">>))
        /\ UNCHANGED discovered_files
     \/ /\ discovered_files' =
             DiscoverSource(discovered_files, Head(sources), rag_service.current_indexed_path)
        /\ sources' = Tail(sources)
        /\ pc' = IF Tail(sources) = <<>> THEN "store_files" ELSE "rag_loop"
        /\ UNCHANGED log
  /\ UNCHANGED <<env, node, state, rag_context, analysis_results, content, target_files,
                 edits, idx, result, trace, attempted, given, generated>>

RagHeader == <<"--- RAG Context (Relevant Snippets) ---">>

\* an analysis that never shows the retrieved context
RagSectionNever(context) == <<>>

\* an analysis that has the section whatever was retrieved
RagSectionAlways(context) == <<RagHeader, context.v \o <<"\n">>>>

\* lines 436-438
RagSection(context) ==
  IF Truthy(context) THEN <<RagHeader, context.v \o <<"\n">>>> ELSE <<>>

\* lines 432-438: list(discovered_files) enumerates the set in some order
AnalyzeStoreFiles ==
  /\ node = "analyze_context" /\ pc = "store_files"
  /\ \E order \in Orderings(discovered_files) :
       state' = [state EXCEPT !.files = PyList(order)]
  /\ analysis_results' = RagSection(rag_context)
  /\ idx' = 1
  /\ pc' = "files_loop"
  /\ UNCHANGED <<env, node, discovered_files, rag_context, sources, content, target_files,
                 edits, result, trace, log, attempted, given, generated>>

FileHeader(file_path) == <<"--- File: ">> \o Basename(file_path) \o <<" ---">>

\* os.path.splitext(file_path)[1] for the file names of the model
splitext(name) ==
  CASE name \in {"a.py", "b.py"} -> ".py"
    [] name = "m.PY" -> ".PY"
    [] name = "u.js" -> ".js"
    [] name = "v.jsx" -> ".jsx"
    [] name = "w.TS" -> ".TS"
    [] name = "t.tsx" -> ".tsx"
    [] name = "r.md" -> ".md"
    [] OTHER -> ""

\* an extension that is compared as it is written
SameCase(ext) == ext

\* str.lower() of an extension (line 91)
lower(ext) ==
  CASE ext = ".PY" -> ".py"
    [] ext = ".TS" -> ".ts"
    [] OTHER -> ext

\* _get_language_from_ext (lines 113-121); "" stands for None
get_language_from_ext(ext) ==
  CASE ext = ".py" -> "python"
    [] ext \in {".js", ".jsx"} -> "javascript"
    [] ext \in {".ts", ".tsx"} -> "typescript"
    [] OTHER -> ""

\* self.parsers: the languages whose grammar _initialize_parsers loaded
Parsers(service) ==
  CASE service = "python" -> {"python"}
    [] service = "all" -> {"python", "javascript", "typescript"}
    [] OTHER -> {}

\* lines 91-92
LanguageOf(file_path) == get_language_from_ext(lower(splitext(Last(file_path))))

\* the file has a parser that parser.parse may be called on (line 94)
CanParse(service, file_path) ==
  LanguageOf(file_path) # "" /\ LanguageOf(file_path) \in Parsers(service)

\* TreeSitterService.parse_file with the content given (lines 91-111);
\* failed says whether parser.parse or the conversion to bytes raised
parse_file(service, file_path, failed) ==
  IF ~CanParse(service, file_path)
  THEN [kind |-> "unsupported", language |-> <<"unknown">>]
  ELSE IF failed
       THEN [kind |-> "error", language |-> <<>>]
       ELSE [kind |-> "parsed", language |-> <<LanguageOf(file_path)>>]

\* lines 453-463
StructureLines(service, file_path, failed) ==
  IF service = "none"
  THEN <<<<"Structure: (Tree-sitter not available)">>>>
  ELSE LET structure == parse_file(service, file_path, failed)
       IN IF structure.kind = "error"
          THEN <<<<"Structure: (Error: ", "message", ")">>>>
          ELSE <<<<"Structure: Language=">> \o structure.language,
                 <<"Classes=", "[]">>, <<"Functions=", "[]">>>>

\* a loop body that writes the header before it reads the file
FileSectionHeaderFirst(service, file_path, failed) ==
  IF ~Exists(file_path) THEN <<>>
  ELSE IF file_path \in unreadable THEN <<FileHeader(file_path)>>
  ELSE <<FileHeader(file_path)>> \o StructureLines(service, file_path, failed)

\* lines 443-466: the lines one file adds to analysis_results
FileSection(service, file_path, failed) ==
  IF ~Exists(file_path) THEN <<>>
  ELSE IF file_path \in unreadable THEN <<>>
  ELSE <<FileHeader(file_path)>> \o StructureLines(service, file_path, failed)

\* one iteration of the loop of lines 442-466
AnalyzeFile ==
  /\ node = "analyze_context" /\ pc = "files_loop"
  /\ idx <= Len(state.files.v)
  /\ LET file_path == state.files.v[idx]
     IN IF IsStr(file_path)
        THEN /\ \E failed \in (IF CanParse(tree_sitter_service, file_path.v)
                                  /\ Exists(file_path.v)
                                  /\ file_path.v \notin unreadable
                               THEN BOOLEAN ELSE {FALSE}) :
                  analysis_results' = analysis_results
                     \o FileSection(tree_sitter_service, file_path.v, failed)
             /\ log' = IF Exists(file_path.v) /\ file_path.v \in unreadable
                        THEN Append(log, LogEntry("Error analyzing file", file_path.v))
                        ELSE log
             /\ idx' = idx + 1
             /\ UNCHANGED <<node, pc, result, trace>>
        ELSE /\ Raise(<<"TypeError">>)
             /\ trace' = Append(trace, Event("raise", node))
             /\ UNCHANGED <<analysis_results, idx>>
  /\ UNCHANGED <<env, state, discovered_files, rag_context, sources, content, target_files,
                 edits, attempted, given, generated>>

\* lines 468-469, then the edge out of the node
AnalyzeEnd ==
  /\ node = "analyze_context" /\ pc = "files_loop"
  /\ idx > Len(state.files.v)
  /\ state' = [state EXCEPT !.analysis = PyStr(JoinLines(analysis_results))]
  /\ trace' = Append(trace, Event("exit", node))
  /\ node' = Edges[node]
  /\ pc' = "enter"
  /\ UNCHANGED <<env, discovered_files, rag_context, sources, analysis_results,
                 content, target_files, edits, idx, result, log, attempted, given, generated>>

\* ------------------------------------------------------------------------
\* Text helpers of Phase A
\* ------------------------------------------------------------------------
Whitespace == {" ", "\n"}
Quotes == {"\"", "'"}

\* str.strip(): drop leading and trailing whitespace
RECURSIVE LStrip(_, _)
LStrip(text, chars) ==
  IF text # <<>> /\ Head(text) \in chars THEN LStrip(Tail(text), chars) ELSE text

RECURSIVE RStrip(_, _)
RStrip(text, chars) ==
  IF text # <<>> /\ text[Len(text)] \in chars
  THEN RStrip(SubSeq(text, 1, Len(text) - 1), chars)
  ELSE text

Strip(text, chars) == RStrip(LStrip(text, chars), chars)

\* content.split(",")
RECURSIVE Split(_, _)
Split(text, cur) ==
  IF text = <<>> THEN <<cur>>
  ELSE IF Head(text) = "," THEN <<cur>> \o Split(Tail(text), <<>>)
  ELSE Split(Tail(text), Append(cur, Head(text)))

\* a comma split that keeps the blanks and quotes around each piece
CommaSplitRaw(body) ==
  LET parts == Split(body, <<>>)
  IN PyList([i \in 1..Len(parts) |-> PyStr(parts[i])])

\* line 547: [f.strip().strip('"') for f in content.split(",")]
CommaSplit(body) ==
  LET parts == Split(body, <<>>)
  IN PyList([i \in 1..Len(parts) |-> PyStr(Strip(Strip(parts[i], Whitespace), {"\""}))])

\* re.search(r"\[.*\]", body, re.DOTALL): from the first "[" to the last "]"
BracketMatch(body) ==
  LET opens == {i \in 1..Len(body) : body[i] = "["}
      closes == {i \in 1..Len(body) : body[i] = "]"}
      first == IF opens = {} THEN 0 ELSE CHOOSE i \in opens : \A j \in opens : i <= j
      last == IF closes = {} THEN 0 ELSE CHOOSE i \in closes : \A j \in closes : i >= j
  IN IF first > 0 /\ last > first
     THEN [found |-> TRUE, text |-> SubSeq(body, first, last)]
     ELSE [found |-> FALSE, text |-> <<>>]

\* ------------------------------------------------------------------------
\* json.loads and ast.literal_eval on the atoms of a response
\* ------------------------------------------------------------------------
ParseFail == [ok |-> FALSE, val |-> PyNone, pos |-> 0]
ParseOk(v, p) == [ok |-> TRUE, val |-> v, pos |-> p]

RECURSIVE Skip(_, _, _)
Skip(text, i, chars) ==
  IF i <= Len(text) /\ text[i] \in chars THEN Skip(text, i + 1, chars) ELSE i

\* the text of a string literal whose opening quote(s) end before position i
RECURSIVE ScanString(_, _, _, _, _)
ScanString(text, i, q, triple, from) ==
  IF i > Len(text) THEN ParseFail
  ELSE IF triple
       THEN IF i + 2 <= Len(text) /\ text[i] = q /\ text[i + 1] = q /\ text[i + 2] = q
            THEN ParseOk(PyStr(SubSeq(text, from, i - 1)), i + 3)
            ELSE ScanString(text, i + 1, q, triple, from)
       ELSE IF text[i] = q THEN ParseOk(PyStr(SubSeq(text, from, i - 1)), i + 1)
            ELSE IF text[i] = "\n" THEN ParseFail
            ELSE ScanString(text, i + 1, q, triple, from)

\* one Python string literal starting at the quote text[i]
PyStringLiteral(text, i) ==
  LET q == text[i]
  IN IF i + 2 <= Len(text) /\ text[i + 1] = q /\ text[i + 2] = q
     THEN ScanString(text, i + 3, q, TRUE, i + 3)
     ELSE ScanString(text, i + 1, q, FALSE, i + 1)

\* adjacent Python string literals are concatenated
RECURSIVE PyStrings(_, _, _, _)
PyStrings(text, i, ws, acc) ==
  LET r == PyStringLiteral(text, i)
  IN IF ~r.ok THEN ParseFail
     ELSE LET j == Skip(text, r.pos, ws)
              sofar == acc \o r.val.v
          IN IF j <= Len(text) /\ text[j] \in Quotes
             THEN PyStrings(text, j, ws, sofar)
             ELSE ParseOk(PyStr(sofar), r.pos)

RECURSIVE ParseValue(_, _, _, _)
RECURSIVE ParseItems(_, _, _, _)

\* the items of a list display after "[", up to the closing "]"
ParseItems(text, i, mode, acc) ==
  LET r == ParseValue(text, i, mode, Whitespace)
  IN IF ~r.ok THEN ParseFail
     ELSE LET j == Skip(text, r.pos, Whitespace)
              items == Append(acc, r.val)
          IN IF j > Len(text) THEN ParseFail
             ELSE IF text[j] = "]" THEN ParseOk(PyList(items), j + 1)
             ELSE IF text[j] = ","
                  THEN LET k == Skip(text, j + 1, Whitespace)
                       IN IF k > Len(text) THEN ParseFail
                          ELSE IF text[k] = "]"
                               THEN IF mode = "python" THEN ParseOk(PyList(items), k + 1)
                                    ELSE ParseFail
                               ELSE ParseItems(text, k, mode, items)
                  ELSE ParseFail

\* one value starting at position i; ws is the whitespace allowed between
\* adjacent string literals at this nesting level
ParseValue(text, i, mode, ws) ==
  IF i > Len(text) THEN ParseFail
  ELSE IF text[i] = "["
       THEN LET j == Skip(text, i + 1, Whitespace)
            IN IF j > Len(text) THEN ParseFail
               ELSE IF text[j] = "]" THEN ParseOk(PyList(<<>>), j + 1)
               ELSE ParseItems(text, j, mode, <<>>)
  ELSE IF text[i] = "\""
       THEN IF mode = "python" THEN PyStrings(text, i, ws, <<>>)
            ELSE ScanString(text, i + 1, "\"", FALSE, i + 1)
  ELSE IF text[i] = "'"
       THEN IF mode = "python" THEN PyStrings(text, i, ws, <<>>) ELSE ParseFail
  ELSE IF text[i] = "1"
       THEN LET j == Skip(text, i, {"1"})
            IN ParseOk(PyNum(SubSeq(text, i, j - 1)), j)
  ELSE IF text[i] = "null"
       THEN IF mode = "json" THEN ParseOk(PyNone, i + 1) ELSE ParseFail
  ELSE ParseFail

\* json.loads(text): one value and nothing but whitespace after it
json_loads(text) ==
  LET r == ParseValue(text, Skip(text, 1, Whitespace), "json", Whitespace)
  IN IF r.ok /\ Skip(text, r.pos, Whitespace) > Len(text) THEN r ELSE ParseFail

\* the expressions after a top-level comma: the text is then a tuple
RECURSIVE TopItems(_, _, _)
TopItems(text, i, acc) ==
  LET r == ParseValue(text, i, "python", {" "})
  IN IF ~r.ok THEN ParseFail
     ELSE LET j == Skip(text, r.pos, {" "})
              items == Append(acc, r.val)
          IN IF j > Len(text) THEN ParseOk([t |-> "tuple", v |-> items], j)
             ELSE IF text[j] = ","
                  THEN LET k == Skip(text, j + 1, {" "})
                       IN IF k > Len(text) THEN ParseOk([t |-> "tuple", v |-> items], k)
                          ELSE TopItems(text, k, items)
                  ELSE ParseFail

\* ast.literal_eval(text): a literal expression; commas at the top level
\* make a tuple
literal_eval(text) ==
  LET r == ParseValue(text, Skip(text, 1, {" "}), "python", {" "})
  IN IF ~r.ok THEN ParseFail
     ELSE LET j == Skip(text, r.pos, {" "})
          IN IF Skip(text, r.pos, Whitespace) > Len(text) THEN r
             ELSE IF text[j] = ","
                  THEN LET k == Skip(text, j + 1, {" "})
                       IN IF Skip(text, j + 1, Whitespace) > Len(text)
                          THEN ParseOk([t |-> "tuple", v |-> <<r.val>>], k)
                          ELSE TopItems(text, k, <<r.val>>)
                  ELSE ParseFail

\* ------------------------------------------------------------------------
\* Phase A of _generate_content: target resolution (lines 534-550)
\* ------------------------------------------------------------------------
\* lines 537-544: the value parsed from the bracketed part of the response
ParseBracketed(body) ==
  LET match == BracketMatch(body)
  IN IF ~match.found THEN PyList(<<>>)
     ELSE IF json_loads(match.text).ok THEN json_loads(match.text).val
     ELSE IF literal_eval(match.text).ok THEN literal_eval(match.text).val
     ELSE PyList(<<>>)

\* a ladder that splits on commas whenever the response has one
FallbackTargetsCommaFirst(body, parsed, known_files) ==
  IF \E i \in 1..Len(body) : body[i] = ","
  THEN CommaSplit(body)
  ELSE IF ~Truthy(parsed) THEN known_files ELSE parsed

\* lines 546-548
FallbackTargets(body, parsed, known_files) ==
  IF ~Truthy(parsed)
  THEN IF \E i \in 1..Len(body) : body[i] = ","
       THEN CommaSplit(body)
       ELSE known_files
  ELSE parsed

\* lines 534-550
ResolveTargets(raw, known_files) ==
  LET body == Strip(raw, Whitespace)
      chosen == FallbackTargets(body, ParseBracketed(body), known_files)
  IN IF ~IsList(chosen) THEN known_files ELSE chosen

\* ------------------------------------------------------------------------
\* Phase B text extraction (lines 611-636)
\* ------------------------------------------------------------------------
NewlinesIn(text, from, to) == {i \in from..to : text[i] = "\n"}

\* positions r of the "\n" that closes the replace text: "\n>{7}\s*REPLACE"
ReplaceEnds(text) ==
  {r \in 1..Len(text) - 2 :
     /\ text[r] = "\n" /\ text[r + 1] = ">>>>>>>"
     /\ LET p == Skip(text, r + 2, Whitespace)
        IN p <= Len(text) /\ text[p] = "REPLACE"}

\* positions m of the "\n" that closes the search text, "\n={7}\s*\n", for
\* which the rest of the pattern can still match
Dividers(text) ==
  {m \in 1..Len(text) - 2 :
     /\ text[m] = "\n" /\ text[m + 1] = "======="
     /\ \E n2 \in NewlinesIn(text, m + 2, Skip(text, m + 2, Whitespace) - 1) :
          \E r \in ReplaceEnds(text) : r > n2}

Max(S) == CHOOSE x \in S : \A y \in S : y <= x
Min(S) == CHOOSE x \in S : \A y \in S : x <= y

\* the match of the hunk pattern that starts at position s, as the
\* backtracking matcher finds it: \s* takes as much as it can, (.*?) as
\* little as it can
HunkMatchAt(text, s) ==
  IF s > Len(text) \/ text[s] # "<<<<<<<" THEN [found |-> FALSE]
  ELSE LET p == Skip(text, s + 1, Whitespace)
       IN IF p > Len(text) \/ text[p] # "SEARCH" THEN [found |-> FALSE]
          ELSE LET starts == {n1 \in NewlinesIn(text, p + 1, Skip(text, p + 1, Whitespace) - 1) :
                                \E m \in Dividers(text) : m > n1}
               IN IF starts = {} THEN [found |-> FALSE]
                  ELSE LET n1 == Max(starts)
                           m == Min({x \in Dividers(text) : x > n1})
                           n2 == Max({n \in NewlinesIn(text, m + 2, Skip(text, m + 2, Whitespace) - 1) :
                                        \E r \in ReplaceEnds(text) : r > n})
                           r == Min({x \in ReplaceEnds(text) : x > n2})
                       IN [found |-> TRUE,
                           search |-> SubSeq(text, n1 + 1, m - 1),
                           replace |-> SubSeq(text, n2 + 1, r - 1),
                           end |-> Skip(text, r + 2, Whitespace)]

\* an extraction that stops at the first match of the pattern
RECURSIVE ExtractHunksFirstOnly(_, _)
ExtractHunksFirstOnly(text, from) ==
  IF from > Len(text) THEN <<>>
  ELSE LET match == HunkMatchAt(text, from)
       IN IF match.found
          THEN <<[search |-> match.search, replace |-> match.replace]>>
          ELSE ExtractHunksFirstOnly(text, from + 1)

\* list(re.finditer(pattern, generated_text, re.DOTALL)) turned into hunks
RECURSIVE ExtractHunks(_, _)
ExtractHunks(text, from) ==
  IF from > Len(text) THEN <<>>
  ELSE LET match == HunkMatchAt(text, from)
       IN IF match.found
          THEN <<[search |-> match.search, replace |-> match.replace]>>
               \o ExtractHunks(text, match.end + 1)
          ELSE ExtractHunks(text, from + 1)

\* the atom that stands for a fence of three backquotes
Fence == "FENCE"

\* atoms made of \w characters only
WordAtoms == {"python", "code"}

\* re.search of the fenced-block pattern in new_content (line 635): the fence,
\* an optional word, a newline, the shortest inner text, a newline, the fence
FencedMatchAt(text, s) ==
  IF s > Len(text) \/ text[s] # Fence THEN [found |-> FALSE]
  ELSE LET w == Skip(text, s + 1, WordAtoms)
           n == IF w <= Len(text) /\ text[w] = "\n" THEN w ELSE 0
           closes == {m \in 1..Len(text) - 1 : m > n /\ text[m] = "\n" /\ text[m + 1] = Fence}
       IN IF n = 0 \/ closes = {} THEN [found |-> FALSE]
          ELSE [found |-> TRUE, inner |-> SubSeq(text, n + 1, Min(closes) - 1)]

\* lines 634-636
ExtractNewContent(text) ==
  LET hits == {s \in 1..Len(text) : FencedMatchAt(text, s).found}
  IN IF hits = {} THEN text ELSE FencedMatchAt(text, Min(hits)).inner

\* a record that turns an answer without hunks into one hunk of the whole text
PatchEditWholeResponse(file_path, generated_text) ==
  [file_path |-> file_path,
   hunks |-> IF ExtractHunks(generated_text, 1) = <<>>
             THEN <<[search |-> <<>>, replace |-> generated_text]>>
             ELSE ExtractHunks(generated_text, 1),
   is_new |-> FALSE]

\* lines 626-630
PatchEdit(file_path, generated_text) ==
  [file_path |-> file_path, hunks |-> ExtractHunks(generated_text, 1), is_new |-> FALSE]

\* a creation record that also carries the hunks found in the response
CreateEditWithHunks(file_path, generated_text) ==
  [file_path |-> file_path, new_content |-> ExtractNewContent(generated_text),
   hunks |-> ExtractHunks(generated_text, 1), is_new |-> TRUE]

\* lines 638-643
CreateEdit(file_path, generated_text) ==
  [file_path |-> file_path, new_content |-> ExtractNewContent(generated_text),
   hunks |-> <<>>, is_new |-> TRUE]

\* ------------------------------------------------------------------------
\* The completion service: what the model may answer
\* ------------------------------------------------------------------------
PlanTexts == {<<"plan">>}

Quoted(name) == <<"\"">> \o name \o <<"\"">>

\* answers to the request for the target-file list
CandidateResponses ==
  { <<"[">> \o Quoted(<<"a.py">>) \o <<",", " ">> \o Quoted(<<"b.py">>) \o <<"]">>,
    <<"[", "]">>,
    <<"I", " ", "think", " ", "we", " ", "need", " ", "a.py", ",", " ", "b.py">>,
    <<"no", " ", "files">>,
    <<"No", " ", "files", ",", " ", "[", "]">>,
    <<"[">> \o Quoted(<<"a.py">>) \o <<"]", " ", "and", " ", "[", "more", "]">>,
    <<"[", "null", "]">> }

\* answers to the per-file request
GeneratedTexts ==
  { <<"Plan: edit main.py", "\n", "<<<<<<<", " ", "SEARCH", "\n", "foo()", "\n",
      "=======", "\n", "bar()", "\n", ">>>>>>>", " ", "REPLACE">>,
    <<"Here:", "\n", Fence, "python", "\n", "code", "\n", Fence>>,
    <<"<<<<<<<", " ", "SEARCH", "\n", "foo()", "\n", ">>>>>>>", " ", "REPLACE">>,
    <<"code">> }

\* ------------------------------------------------------------------------
\* _plan_changes (lines 471-500)
\* ------------------------------------------------------------------------
PlanChanges ==
  /\ node = "plan_changes" /\ pc = "enter"
  /\ \/ /\ trace' = trace \o <<Event("enter", node), Event("raise", node)>>
        /\ Raise(<<"model call failed">>)
        /\ UNCHANGED state
     \/ \E response \in PlanTexts :
          /\ state' = [state EXCEPT !.messages = Append(@, response),
                                    !.plan = PyStr(response)]
          /\ trace' = trace \o <<Event("enter", node), Event("exit", node)>>
          /\ node' = Edges[node]
          /\ pc' = "enter"
          /\ UNCHANGED <<result, log>>
  /\ UNCHANGED <<env, discovered_files, rag_context, sources, analysis_results,
                 content, target_files, edits, idx, attempted, given, generated>>

\* a Phase A whose except clause logs the failure and lets it go up to run
GenerateTargetsUnguarded(responses) ==
  /\ node = "generate_content" /\ pc = "enter"
  /\ \/ /\ result' = FailureResult(<<"model call failed">>)
        /\ log' = log \o <<LogEntry("Failed to parse target files", <<"model call failed">>),
                            LogEntry("Multi-file workflow error", <<"model call failed">>)>>
        /\ node' = "END"
        /\ pc' = "done"
        /\ trace' = trace \o <<Event("enter", node), Event("raise", node)>>
        /\ UNCHANGED <<content, target_files, edits, idx>>
     \/ /\ \E raw \in responses :
             /\ content' = PyStr(Strip(raw, Whitespace))
             /\ target_files' = ResolveTargets(raw, state.files)
        /\ edits' = <<>>
        /\ idx' = 1
        /\ pc' = "targets_loop"
        /\ trace' = Append(trace, Event("enter", node))
        /\ UNCHANGED <<node, result, log>>
  /\ UNCHANGED <<env, state, discovered_files, rag_context, sources,
                 analysis_results, attempted, given, generated>>

\* ------------------------------------------------------------------------
\* _generate_content (lines 504-646)
\* ------------------------------------------------------------------------
\* Phase A, lines 528-554: the call may raise, which the except turns into
\* the known files
GenerateTargetsFrom(responses) ==
  /\ node = "generate_content" /\ pc = "enter"
  /\ \/ /\ content' = PyNone
        /\ target_files' = state.files
        /\ log' = Append(log, LogEntry("Failed to parse target files", <<"model call failed">>))
     \/ \E raw \in responses :
          /\ content' = PyStr(Strip(raw, Whitespace))
          /\ target_files' = ResolveTargets(raw, state.files)
          /\ UNCHANGED log
  /\ edits' = <<>>
  /\ idx' = 1
  /\ pc' = "targets_loop"
  /\ trace' = Append(trace, Event("enter", node))
  /\ UNCHANGED <<env, node, state, discovered_files, rag_context, sources,
                 analysis_results, result, attempted, given, generated>>

GenerateTargets == GenerateTargetsFrom(CandidateResponses)

\* a loop that never looks at the disk and asks for a new file every time
TargetProbesNoCheck(file_path) == {"absent"}

\* lines 560-565: how the existence check and the read of a target end
TargetProbes(file_path) ==
  IF IsStr(file_path)
  THEN IF ~Exists(file_path.v) THEN {"absent"}
       ELSE IF file_path.v \in unreadable THEN {"read_raises"}
       ELSE {"read"}
  ELSE IF file_path.t = "num" THEN {"absent", "read_raises", "read"}
  ELSE {"exists_raises"}

\* Phase B, lines 558-643: one iteration of the loop over target_files
GenerateFileFrom(texts) ==
  /\ node = "generate_content" /\ pc = "targets_loop"
  /\ idx <= Len(target_files.v)
  /\ LET file_path == target_files.v[idx]
     IN /\ attempted' = Append(attempted, file_path)
        /\ \E probe \in TargetProbes(file_path) :
             \/ /\ probe \in {"exists_raises", "read_raises"}
                /\ Raise(<<"file error">>)
                /\ trace' = Append(trace, Event("raise", node))
                /\ UNCHANGED <<edits, idx, generated>>
             \/ /\ probe \in {"absent", "read"}
                /\ Raise(<<"model call failed">>)
                /\ trace' = Append(trace, Event("raise", node))
                /\ UNCHANGED <<edits, idx, generated>>
             \/ /\ probe \in {"absent", "read"}
                /\ \E text \in texts :
                     /\ generated' = Append(generated, text)
                     /\ edits' = Append(edits,
                                   IF probe = "read"
                                   THEN PatchEdit(file_path, text)
                                   ELSE CreateEdit(file_path, text))
                /\ idx' = idx + 1
                /\ UNCHANGED <<node, pc, result, trace, log>>
  /\ UNCHANGED <<env, state, discovered_files, rag_context, sources,
                 analysis_results, content, target_files, given>>

GenerateFile == GenerateFileFrom(GeneratedTexts)

\* a return that applies the edits: it creates the new files on disk
GenerateEndAppliesEdits ==
  /\ node = "generate_content" /\ pc = "targets_loop"
  /\ idx > Len(target_files.v)
  /\ state' = [state EXCEPT !.edits = PyList(edits)]
  /\ disk' = disk \cup {edits[i].file_path.v : i \in {j \in 1..Len(edits) : edits[j].is_new}}
  /\ trace' = Append(trace, Event("exit", node))
  /\ node' = Edges[node]
  /\ pc' = "enter"
  /\ UNCHANGED <<unreadable, rag_service, tree_sitter_service, discovered_files,
                 rag_context, sources, analysis_results, content, target_files,
                 edits, idx, result, log, attempted, given, generated,
                 running, suspended, rag_history, syntax_tree, extracted>>

\* a return that also stores the resolved targets as the files of the state
GenerateEndStoresTargets ==
  /\ node = "generate_content" /\ pc = "targets_loop"
  /\ idx > Len(target_files.v)
  /\ state' = [state EXCEPT !.edits = PyList(edits), !.files = target_files]
  /\ trace' = Append(trace, Event("exit", node))
  /\ node' = Edges[node]
  /\ pc' = "enter"
  /\ UNCHANGED <<env, discovered_files, rag_context, sources, analysis_results,
                 content, target_files, edits, idx, result, log, attempted, given, generated>>

\* a return that leaves out the edits that change nothing
GenerateEndDropsEmpty ==
  /\ node = "generate_content" /\ pc = "targets_loop"
  /\ idx > Len(target_files.v)
  /\ state' = [state EXCEPT !.edits =
                  PyList(SelectSeq(edits, LAMBDA e : e.is_new \/ e.hunks # <<>>))]
  /\ trace' = Append(trace, Event("exit", node))
  /\ node' = Edges[node]
  /\ pc' = "enter"
  /\ UNCHANGED <<env, discovered_files, rag_context, sources, analysis_results,
                 content, target_files, edits, idx, result, log, attempted, given, generated>>

\* lines 645-646, then the edge out of the node
GenerateEnd ==
  /\ node = "generate_content" /\ pc = "targets_loop"
  /\ idx > Len(target_files.v)
  /\ state' = [state EXCEPT !.edits = PyList(edits)]
  /\ trace' = Append(trace, Event("exit", node))
  /\ node' = Edges[node]
  /\ pc' = "enter"
  /\ UNCHANGED <<env, discovered_files, rag_context, sources, analysis_results,
                 content, target_files, edits, idx, result, log, attempted, given, generated>>

\* lines 664-670: the graph reached END
RunReturn ==
  /\ node = "END" /\ pc = "enter"
  /\ result' = SuccessResult(state)
  /\ pc' = "done"
  /\ UNCHANGED <<env, node, state, discovered_files, rag_context, sources,
                 analysis_results, content, target_files, edits, idx, trace,
                 log, attempted, given, generated>>

\* ------------------------------------------------------------------------
\* The specification of one invocation of the workflow
\* ------------------------------------------------------------------------
Next ==
  \/ Run
  \/ AnalyzeBegin
  \/ AnalyzeRagQuery
  \/ AnalyzeRagSource
  \/ AnalyzeStoreFiles
  \/ AnalyzeFile
  \/ AnalyzeEnd
  \/ PlanChanges
  \/ GenerateTargets
  \/ GenerateFile
  \/ GenerateEnd
  \/ RunReturn

Spec == Init /\ [][Next]_vars

\* ------------------------------------------------------------------------
\* The context analyzer alone, over every small project and retriever
\* ------------------------------------------------------------------------
InitAnalyze ==
  /\ disk \in SUBSET Paths
  /\ unreadable \in SUBSET (disk \cap {<<"a.py">>})
  /\ rag_service \in {NoRetriever} \cup
       {Retriever(r, d) : r \in {PyNone, PyStr(IndexedRoot)}, d \in SeqsUpTo(DocNames, MaxDocs)}
  /\ tree_sitter_service \in {"none", "python"}
  /\ given \in FilesArguments(Paths \ {PathJoin(IndexedRoot, <<"b.py">>)})
  /\ Idle
  /\ Alone

NextAnalyze ==
  \/ Run
  \/ AnalyzeBegin
  \/ AnalyzeRagQuery
  \/ AnalyzeRagSource
  \/ AnalyzeStoreFiles
  \/ AnalyzeFile
  \/ AnalyzeEnd

SpecAnalyze == InitAnalyze /\ [][NextAnalyze]_vars

\* ------------------------------------------------------------------------
\* Target resolution alone, over every short response of the model
\* ------------------------------------------------------------------------
\* the pieces a response is made of
Chunks ==
  { <<"[">>, <<"]">>, <<",">>, <<" ">>, Quoted(<<"a.py">>), <<"'", "b.py", "'">>,
    <<"a.py">>, <<"1">>, <<"null">> }

ScenarioResponse ==
  <<"I", " ", "think", " ", "we", " ", "need", " ", "app.py", ",", " ", "utils.py">>

ResponseTexts == {Concat(cs) : cs \in SeqsUpTo(Chunks, MaxChunks)} \cup {ScenarioResponse}

\* the invocation has reached generate_content: a.py was analysed and planned
InitParse ==
  /\ disk = {<<"a.py">>}
  /\ unreadable = {}
  /\ rag_service = NoRetriever
  /\ tree_sitter_service = "none"
  /\ given \in {PyList(<<>>), PyList(<<PyStr(<<"a.py">>)>>)}
  /\ node = "generate_content"
  /\ pc = "enter"
  /\ analysis_results = Concat([i \in 1..Len(given.v) |-> FileSection("none", given.v[i].v, FALSE)])
  /\ state = [EditState(PyStr(TaskText), given) EXCEPT
                !.analysis = PyStr(JoinLines(analysis_results)),
                !.plan = PyStr(<<"plan">>),
                !.messages = <<<<"plan">>>>]
  /\ discovered_files = Range(given.v)
  /\ rag_context = PyStr(<<>>)
  /\ sources = <<>>
  /\ content = PyNone
  /\ target_files = PyList(<<>>)
  /\ edits = <<>>
  /\ idx = Len(given.v) + 1
  /\ result = NoResult
  /\ log = <<>>
  /\ trace = <<Event("enter", "analyze_context"), Event("exit", "analyze_context"),
               Event("enter", "plan_changes"), Event("exit", "plan_changes")>>
  /\ attempted = <<>>
  /\ generated = <<>>
  /\ Alone

ResolveAny == GenerateTargetsFrom(ResponseTexts)

NextParse == ResolveAny

SpecParse == InitParse /\ [][NextParse]_vars

\* ------------------------------------------------------------------------
\* Phase B alone, over many answers of the model to the per-file request
\* ------------------------------------------------------------------------
HunkAtoms == {"foo()", "bar()", "\n", " "}

\* the texts a block may ask to search for or to put in place
HunkTexts == SeqsUpTo(HunkAtoms, MaxText)

\* the delimiter format the prompt asks for (lines 575-579)
Template(search, replace) ==
  <<"<<<<<<<", " ", "SEARCH", "\n">> \o search \o <<"\n", "=======", "\n">>
    \o replace \o <<"\n", ">>>>>>>", " ", "REPLACE">>

HunkTemplates == {Template(s, r) : s \in HunkTexts, r \in HunkTexts}

\* texts that start with code: a line, and an indented line before another
BlockTexts == { <<"foo()">>, <<"bar()">>, <<" ", "bar()", "\n", "foo()">> }

\* what the model may write before a block and after the last one
Outside == { <<>>, <<"Plan: edit main.py", "\n">> }
Tails == { <<>>, <<"\n", "Done.">> }

\* up to MaxBlocks blocks, each with the text written before it
BlockLists == SeqsUpTo(Outside \X BlockTexts \X BlockTexts, MaxBlocks)

Compose(blocks) ==
  Concat([i \in 1..Len(blocks) |-> blocks[i][1] \o Template(blocks[i][2], blocks[i][3])])

BlockResponses == {Compose(bl) \o tail : bl \in BlockLists, tail \in Tails}

\* the pieces an answer with fenced blocks is made of
FenceChunks ==
  { <<Fence, "python", "\n">>, <<Fence, "\n">>, <<"\n", Fence>>, <<Fence>>,
    <<"x()">>, <<"\n">> }

CreateResponses == {Concat(cs) : cs \in SeqsUpTo(FenceChunks, MaxFenceChunks)}

ExtractTexts == HunkTemplates \cup BlockResponses \cup CreateResponses

\* Phase A resolved one target: a.py, which exists, or b.py, which does not
InitExtract ==
  /\ disk = {<<"a.py">>}
  /\ unreadable \in SUBSET disk
  /\ rag_service = NoRetriever
  /\ tree_sitter_service = "none"
  /\ given = PyList(<<PyStr(<<"a.py">>)>>)
  /\ node = "generate_content"
  /\ pc = "targets_loop"
  /\ analysis_results = FileSection("none", <<"a.py">>, <<"a.py">> \in unreadable)
  /\ state = [EditState(PyStr(TaskText), given) EXCEPT
                !.analysis = PyStr(JoinLines(analysis_results)),
                !.plan = PyStr(<<"plan">>),
                !.messages = <<<<"plan">>>>]
  /\ discovered_files = Range(given.v)
  /\ rag_context = PyStr(<<>>)
  /\ sources = <<>>
  /\ \E name \in FileNames :
       /\ content = PyStr(<<"[">> \o Quoted(name) \o <<"]">>)
       /\ target_files = PyList(<<PyStr(name)>>)
  /\ edits = <<>>
  /\ idx = 1
  /\ result = NoResult
  /\ log = IF <<"a.py">> \in unreadable
           THEN <<LogEntry("Error analyzing file", <<"a.py">>)>>
           ELSE <<>>
  /\ trace = <<Event("enter", "analyze_context"), Event("exit", "analyze_context"),
               Event("enter", "plan_changes"), Event("exit", "plan_changes"),
               Event("enter", "generate_content")>>
  /\ attempted = <<>>
  /\ generated = <<>>
  /\ Alone

GenerateAny == GenerateFileFrom(ExtractTexts)

NextExtract ==
  \/ GenerateAny
  \/ GenerateEnd

SpecExtract == InitExtract /\ [][NextExtract]_vars

\* ------------------------------------------------------------------------
\* Two requests served by threads on the one workflow instance
\* ------------------------------------------------------------------------
\* the locals of the running invocation, as a thread keeps them when another
\* thread is scheduled
Saved ==
  [id |-> running, node |-> node, pc |-> pc, state |-> state,
   discovered_files |-> discovered_files, rag_context |-> rag_context,
   sources |-> sources, analysis_results |-> analysis_results,
   content |-> content, target_files |-> target_files, edits |-> edits,
   idx |-> idx, result |-> result, trace |-> trace, attempted |-> attempted,
   given |-> given, generated |-> generated]

\* a scheduler under which the two invocations work on one state record
SwitchSharedState ==
  /\ suspended.id # 0
  /\ suspended' = Saved
  /\ running' = suspended.id
  /\ node' = suspended.node /\ pc' = suspended.pc
  /\ discovered_files' = suspended.discovered_files
  /\ rag_context' = suspended.rag_context
  /\ sources' = suspended.sources
  /\ analysis_results' = suspended.analysis_results
  /\ content' = suspended.content /\ target_files' = suspended.target_files
  /\ edits' = suspended.edits /\ idx' = suspended.idx
  /\ result' = suspended.result /\ trace' = suspended.trace
  /\ attempted' = suspended.attempted /\ given' = suspended.given
  /\ generated' = suspended.generated
  /\ UNCHANGED <<state, disk, unreadable, rag_service, tree_sitter_service, log,
                 rag_history, syntax_tree, extracted>>

\* the scheduler passes control to the other thread: each thread has its own
\* frame of run, with its own initial_state and locals
Switch ==
  /\ suspended.id # 0
  /\ suspended' = Saved
  /\ running' = suspended.id
  /\ node' = suspended.node /\ pc' = suspended.pc
  /\ state' = suspended.state
  /\ discovered_files' = suspended.discovered_files
  /\ rag_context' = suspended.rag_context
  /\ sources' = suspended.sources
  /\ analysis_results' = suspended.analysis_results
  /\ content' = suspended.content /\ target_files' = suspended.target_files
  /\ edits' = suspended.edits /\ idx' = suspended.idx
  /\ result' = suspended.result /\ trace' = suspended.trace
  /\ attempted' = suspended.attempted /\ given' = suspended.given
  /\ generated' = suspended.generated
  /\ UNCHANGED <<disk, unreadable, rag_service, tree_sitter_service, log,
                 rag_history, syntax_tree, extracted>>

\* the second request, not started yet
SecondRequest ==
  [id |-> 2, node |-> "idle", pc |-> "idle", state |-> NoState,
   discovered_files |-> {}, rag_context |-> PyStr(<<>>), sources |-> <<>>,
   analysis_results |-> <<>>, content |-> PyNone, target_files |-> PyList(<<>>),
   edits |-> <<>>, idx |-> 0, result |-> NoResult, trace |-> <<>>,
   attempted |-> <<>>, given |-> PyList(<<PyStr(<<"b.py">>)>>), generated |-> <<>>]

InitTwo ==
  /\ disk = {<<"a.py">>, PathJoin(IndexedRoot, <<"b.py">>)}
  /\ unreadable = {}
  /\ rag_service = Retriever(PyStr(IndexedRoot), <<<<"b.py">>>>)
  /\ tree_sitter_service = "none"
  /\ given = PyList(<<PyStr(<<"a.py">>)>>)
  /\ Idle
  /\ running = 1
  /\ suspended = SecondRequest
  /\ rag_history = <<>>
  /\ syntax_tree = NoTree
  /\ extracted = PyNone

TwoResponses == {<<"[">> \o Quoted(<<"a.py">>) \o <<",", " ">> \o Quoted(<<"b.py">>) \o <<"]">>}

TwoTexts == {<<"code">>}

NextTwo ==
  \/ Switch
  \/ Run
  \/ AnalyzeBegin
  \/ AnalyzeRagQuery
  \/ AnalyzeRagSource
  \/ AnalyzeStoreFiles
  \/ AnalyzeFile
  \/ AnalyzeEnd
  \/ PlanChanges
  \/ GenerateTargetsFrom(TwoResponses)
  \/ GenerateFileFrom(TwoTexts)
  \/ GenerateEnd
  \/ RunReturn

SpecTwo == InitTwo /\ [][NextTwo]_vars

\* ------------------------------------------------------------------------
\* The structure analysis alone, over files of every kind of extension
\* ------------------------------------------------------------------------
SourceNames == {"m.PY", "u.js", "v.jsx", "w.TS", "t.tsx", "r.md", "Makefile"}

\* lists of distinct files of the working directory
SourceLists ==
  {fs \in SeqsUpTo({PyStr(<<n>>) : n \in SourceNames}, MaxFiles) : NoDuplicates(fs)}

\* discovery is over: the files loop of _analyze_context is about to start
InitTree ==
  /\ disk = {<<n>> : n \in SourceNames}
  /\ unreadable = {}
  /\ rag_service = NoRetriever
  /\ tree_sitter_service \in {"no_parsers", "python", "all"}
  /\ given \in {PyList(fs) : fs \in SourceLists}
  /\ node = "analyze_context"
  /\ pc = "files_loop"
  /\ state = EditState(PyStr(TaskText), given)
  /\ discovered_files = Range(given.v)
  /\ rag_context = PyStr(<<>>)
  /\ sources = <<>>
  /\ analysis_results = <<>>
  /\ content = PyNone
  /\ target_files = PyList(<<>>)
  /\ edits = <<>>
  /\ idx = 1
  /\ result = NoResult
  /\ log = <<>>
  /\ trace = <<Event("enter", "analyze_context")>>
  /\ attempted = <<>>
  /\ generated = <<>>
  /\ Alone

NextTree ==
  \/ AnalyzeFile
  \/ AnalyzeEnd

SpecTree == InitTree /\ [][NextTree]_vars

\* ------------------------------------------------------------------------
\* TreeSitterService._extract_structure over syntax trees
\* ------------------------------------------------------------------------
\* how many nodes a syntax tree has below its root
MaxNodes == 3

\* the kinds of node the traversal tells apart: the type of the node and
\* whether it has a name field
NodeKinds(language) ==
  IF language = "python"
  THEN ({"class_definition", "function_definition"} \X BOOLEAN) \cup {<<"block", FALSE>>}
  ELSE ({"class_declaration", "variable_declarator"} \X BOOLEAN)
       \cup {<<"function_declaration", TRUE>>, <<"method_definition", TRUE>>,
             <<"arrow_function", FALSE>>}

RootType(language) == IF language = "python" THEN "module" ELSE "program"

RECURSIVE ForestsOf(_, _)
\* the sequences of trees that have n nodes together; a node is a type, whether
\* it has a name field, and its children
ForestsOf(language, n) ==
  IF n = 0
  THEN {<<>>}
  ELSE UNION {{<<[type |-> kind[1], named |-> kind[2], children |-> c]>> \o rest :
                 kind \in NodeKinds(language),
                 c \in ForestsOf(language, k - 1),
                 rest \in ForestsOf(language, n - k)} : k \in 1..n}

RECURSIVE Label(_, _)
\* the node with the text of its name field: the text is the position of the
\* node in the tree, so that no two declarations have the same name; <<>>
\* stands for a node without a name field
Label(shape, path) ==
  [type |-> shape.type,
   name |-> IF shape.named THEN path ELSE <<>>,
   children |-> [i \in 1..Len(shape.children) |->
                   Label(shape.children[i], Append(path, i))]]

SyntaxTrees(language) ==
  {Label([type |-> RootType(language), named |-> FALSE, children |-> c], <<>>) :
     c \in UNION {ForestsOf(language, n) : n \in 0..MaxNodes}}

NoNode == [type |-> "none"]

\* node.child_by_field_name('value'): the initialiser of a declarator is its
\* last child
ValueChild(tree_node) ==
  IF tree_node.children = <<>> THEN NoNode ELSE Last(tree_node.children)

\* _get_node_name (lines 195-200)
get_node_name(tree_node) == tree_node.name

\* lines 168-190: what the node itself adds to the two lists
Visit(tree_node, lists, language) ==
  LET name == get_node_name(tree_node)
      type == tree_node.type
  IN IF language = "python"
     THEN IF type = "class_definition"
          THEN IF name # <<>> THEN [lists EXCEPT !.classes = Append(@, name)] ELSE lists
          ELSE IF type = "function_definition"
          THEN IF name # <<>> THEN [lists EXCEPT !.functions = Append(@, name)] ELSE lists
          ELSE lists
     ELSE IF language \in {"javascript", "typescript"}
     THEN IF type = "class_declaration"
          THEN IF name # <<>> THEN [lists EXCEPT !.classes = Append(@, name)] ELSE lists
          ELSE IF type \in {"function_declaration", "method_definition"}
          THEN IF name # <<>> THEN [lists EXCEPT !.functions = Append(@, name)] ELSE lists
          ELSE IF type = "variable_declarator"
          THEN IF ValueChild(tree_node) # NoNode /\ ValueChild(tree_node).type = "arrow_function"
                  /\ name # <<>>
               THEN [lists EXCEPT !.functions = Append(@, name)]
               ELSE lists
          ELSE lists
     ELSE lists

RECURSIVE traverse_children_first(_, _, _)
\* a traversal that handles a node after its children
traverse_children_first(tree_node, lists, language) ==
  LET RECURSIVE Children(_, _)
      Children(i, acc) ==
        IF i > Len(tree_node.children) THEN acc
        ELSE Children(i + 1, traverse_children_first(tree_node.children[i], acc, language))
  IN Visit(tree_node, Children(1, lists), language)

RECURSIVE traverse_node(_, _, _)
\* _traverse_node (lines 167-193): the node, then each child in order
traverse_node(tree_node, lists, language) ==
  LET RECURSIVE Children(_, _)
      Children(i, acc) ==
        IF i > Len(tree_node.children) THEN acc
        ELSE Children(i + 1, traverse_node(tree_node.children[i], acc, language))
  IN Children(1, Visit(tree_node, lists, language))

\* an extraction that lists a declaration after the declarations nested in it
extract_children_first(tree_node, language) ==
  IF language \in {"python", "javascript", "typescript"}
  THEN traverse_children_first(tree_node, [classes |-> <<>>, functions |-> <<>>], language)
  ELSE [classes |-> <<>>, functions |-> <<>>]

\* _extract_structure (lines 123-165)
extract_structure(tree_node, language) ==
  IF language \in {"python", "javascript", "typescript"}
  THEN traverse_node(tree_node, [classes |-> <<>>, functions |-> <<>>], language)
  ELSE [classes |-> <<>>, functions |-> <<>>]

\* line 102: the structure of the tree the parser returned
ExtractStructure ==
  /\ syntax_tree # NoTree
  /\ extracted = PyNone
  /\ extracted' = extract_structure(syntax_tree.root_node, syntax_tree.language)
  /\ UNCHANGED <<disk, unreadable, rag_service, tree_sitter_service, running, suspended,
                 rag_history, syntax_tree, node, pc, state, discovered_files, rag_context,
                 sources, analysis_results, content, target_files, edits, idx, result,
                 log, trace, attempted, given, generated>>

InitTraverse ==
  /\ disk = {}
  /\ unreadable = {}
  /\ rag_service = NoRetriever
  /\ tree_sitter_service = "all"
  /\ given = PyList(<<>>)
  /\ Idle
  /\ running = 1
  /\ suspended = NoInvocation
  /\ rag_history = <<>>
  /\ \E language \in {"python", "javascript", "typescript"} :
       syntax_tree \in {[language |-> language, root_node |-> t] : t \in SyntaxTrees(language)}
  /\ extracted = PyNone

NextTraverse == ExtractStructure

SpecTraverse == InitTraverse /\ [][NextTraverse]_vars

\* ------------------------------------------------------------------------
\* The retriever's index: reset_index and index_codebase next to the analyzer
\* ------------------------------------------------------------------------
\* how many index operations the endpoints receive
MaxRagOps == 3

\* directories index_codebase is called on: the project, a directory without
\* a file of an allowed extension, and one that does not exist
IndexDirs == {IndexedRoot, <<"empty">>, <<"gone">>}

DirExists(directory_path) == directory_path \in {IndexedRoot, <<"empty">>}

\* lines 90-108: the documents loaded from the directory, by file name
DirDocuments(directory_path) ==
  SelectSeq(<<<<"a.py">>, <<"b.py">>>>, LAMBDA n : PathJoin(directory_path, n) \in disk)

\* a reset that forgets the path and keeps the store
ResetIndexKeepsStore ==
  /\ Len(rag_history) < MaxRagOps
  /\ rag_service' = [rag_service EXCEPT !.current_indexed_path = PyNone]
  /\ rag_history' = Append(rag_history, [op |-> "reset"])
  /\ UNCHANGED <<disk, unreadable, tree_sitter_service, running, suspended, syntax_tree,
                 extracted, node, pc, state, discovered_files, rag_context, sources,
                 analysis_results, content, target_files, edits, idx, result, log, trace,
                 attempted, given, generated>>

\* reset_index (lines 174-183): _clear_existing_index drops the store
\* (lines 46-52), then the path is forgotten
ResetIndex ==
  /\ Len(rag_history) < MaxRagOps
  /\ rag_service' = [rag_service EXCEPT !.docs = <<>>, !.current_indexed_path = PyNone]
  /\ rag_history' = Append(rag_history, [op |-> "reset"])
  /\ UNCHANGED <<disk, unreadable, tree_sitter_service, running, suspended, syntax_tree,
                 extracted, node, pc, state, discovered_files, rag_context, sources,
                 analysis_results, content, target_files, edits, idx, result, log, trace,
                 attempted, given, generated>>

\* index_codebase (lines 69-139). Without embeddings or for a directory that
\* does not exist it returns before it changes anything; otherwise the path
\* is set (line 78) and the store dropped (line 82) before the documents are
\* loaded, and the store is built only when there are documents and nothing
\* raised
IndexCodebase(directory_path) ==
  /\ Len(rag_history) < MaxRagOps
  /\ \E embeddings \in BOOLEAN, raised \in BOOLEAN :
       LET documents == DirDocuments(directory_path)
           entered == embeddings /\ DirExists(directory_path)
           success == entered /\ documents # <<>> /\ ~raised
       IN /\ rag_service' =
               IF ~entered THEN rag_service
               ELSE [rag_service EXCEPT !.current_indexed_path = PyStr(directory_path),
                                        !.docs = IF success THEN documents ELSE <<>>]
          /\ rag_history' = Append(rag_history,
                               [op |-> "index", directory_path |-> directory_path,
                                entered |-> entered, success |-> success])
  /\ UNCHANGED <<disk, unreadable, tree_sitter_service, running, suspended, syntax_tree,
                 extracted, node, pc, state, discovered_files, rag_context, sources,
                 analysis_results, content, target_files, edits, idx, result, log, trace,
                 attempted, given, generated>>

\* a project indexed or not yet indexed, and one edit request
InitIndex ==
  /\ disk = {<<"a.py">>, PathJoin(IndexedRoot, <<"b.py">>)}
  /\ unreadable = {}
  /\ rag_service \in {Retriever(PyNone, <<>>), Retriever(PyStr(IndexedRoot), <<<<"b.py">>>>)}
  /\ tree_sitter_service = "none"
  /\ given \in {PyList(<<>>), PyList(<<PyStr(<<"a.py">>)>>)}
  /\ Idle
  /\ Alone

NextIndex ==
  \/ ResetIndex
  \/ \E directory_path \in IndexDirs : IndexCodebase(directory_path)
  \/ Run
  \/ AnalyzeBegin
  \/ AnalyzeRagQuery
  \/ AnalyzeRagSource
  \/ AnalyzeStoreFiles
  \/ AnalyzeFile
  \/ AnalyzeEnd

SpecIndex == InitIndex /\ [][NextIndex]_vars

\* ------------------------------------------------------------------------
\* CodeWorkflow (lines 24-362)
\* ------------------------------------------------------------------------
\* how many lines a review has
MaxReviewLines == 6

\* lines 39-55: the edges that do not depend on the state
CodeEdges ==
  [analyze_requirements |-> "design_architecture",
   design_architecture |-> "generate_code",
   generate_code |-> "review_code",
   review_code |-> "test_code",
   optimize_code |-> "document_code",
   document_code |-> "generate_final_output",
   generate_final_output |-> "END"]

\* line 38
CodeEntryPoint == "analyze_requirements"

\* lines 337-347
AgentState(task, language, context) ==
  [messages |-> <<>>, task |-> task, language |-> language, context |-> context,
   code |-> <<>>, analysis |-> <<>>, issues |-> <<>>, suggestions |-> <<>>,
   final_output |-> <<>>]

\* str.lower() of the words of a review
lower_word(w) ==
  CASE w = "Bug" -> "bug"
    [] w = "Problems" -> "problems"
    [] OTHER -> w

\* the lower-case words that have one of the words of line 183 inside them
KeywordWords == {"bug", "debug", "error", "errors", "issue", "issues",
                 "problem", "problems", "warning", "warnings"}

\* lines 182-185: any(word in line.lower() for word in [...])
HasKeyword(line) == \E i \in 1..Len(line) : lower_word(line[i]) \in KeywordWords

\* content.split("\n")
RECURSIVE SplitLines(_, _)
SplitLines(text, cur) ==
  IF text = <<>> THEN <<cur>>
  ELSE IF Head(text) = "\n" THEN <<cur>> \o SplitLines(Tail(text), <<>>)
  ELSE SplitLines(Tail(text), Append(cur, Head(text)))

\* lines 180-187: the lines that name a problem, stripped
IssuesOf(text) ==
  LET lines == SplitLines(text, <<>>)
      found == SelectSeq(lines, HasKeyword)
  IN [i \in 1..Len(found) |-> Strip(found[i], Whitespace)]

\* issues[:5]
FirstFive(issues) == SubSeq(issues, 1, Min({5, Len(issues)}))

\* the lines a reviewer writes
ReviewLines == {<<" ", "Bug", " ">>, <<"no", " ", "Problems">>, <<"fine">>}

ReviewResponses == {JoinLines(ls) : ls \in SeqsUpTo(ReviewLines, MaxReviewLines)}

\* a decision that optimizes from two issues on
should_optimize_from_two(st) ==
  IF st.issues # <<>> /\ Len(st.issues) >= 2 THEN "optimize" ELSE "document"

\* _should_optimize (lines 224-228)
should_optimize(st) ==
  IF st.issues # <<>> /\ Len(st.issues) > 2 THEN "optimize" ELSE "document"

\* lines 47-51
ConditionalEdges == [optimize |-> "optimize_code", document |-> "document_code"]

\* run, lines 334-349: the state is created and the graph entered
CodeRun ==
  /\ node = "idle"
  /\ state' = AgentState(TaskText, <<"python">>, <<>>)
  /\ node' = CodeEntryPoint
  /\ pc' = "stage"
  /\ UNCHANGED <<env, discovered_files, rag_context, sources, analysis_results, content,
                 target_files, edits, idx, result, log, trace, attempted, given, generated>>

\* lines 353-360: an exception of a stage ends the run
CodeRaise ==
  /\ result' = [returned |-> TRUE, success |-> FALSE, error |-> <<"model call failed">>,
                final_code |-> <<>>, final_output |-> <<>>]
  /\ log' = Append(log, LogEntry("Workflow error", <<"model call failed">>))
  /\ trace' = trace \o <<Event("enter", node), Event("raise", node)>>
  /\ node' = "END"
  /\ pc' = "done"
  /\ UNCHANGED <<state, content>>

\* a stage whose model call returned: the new state, and the edge out of it
CodeStageDone(new_state, next) ==
  /\ state' = new_state
  /\ trace' = trace \o <<Event("enter", node), Event("exit", node)>>
  /\ node' = next
  /\ UNCHANGED <<pc, result, log>>

CodeFrame ==
  UNCHANGED <<env, discovered_files, rag_context, sources, analysis_results,
              target_files, edits, idx, attempted, given, generated>>

\* _analyze_requirements (lines 60-88)
AnalyzeRequirements ==
  /\ node = "analyze_requirements" /\ pc = "stage"
  /\ \/ CodeRaise
     \/ /\ CodeStageDone([state EXCEPT !.messages = Append(@, node),
                                       !.analysis = <<"requirements">>],
                         CodeEdges[node])
        /\ UNCHANGED content
  /\ CodeFrame

\* _design_architecture (lines 90-119)
DesignArchitecture ==
  /\ node = "design_architecture" /\ pc = "stage"
  /\ \/ CodeRaise
     \/ /\ CodeStageDone([state EXCEPT !.messages = Append(@, node),
                                       !.analysis = @ \o <<"\n\nArchitecture Design:\n", "design">>],
                         CodeEdges[node])
        /\ UNCHANGED content
  /\ CodeFrame

\* _generate_code (lines 121-150)
GenerateCode ==
  /\ node = "generate_code" /\ pc = "stage"
  /\ \/ CodeRaise
     \/ /\ CodeStageDone([state EXCEPT !.messages = Append(@, node),
                                       !.code = <<"code">>],
                         CodeEdges[node])
        /\ UNCHANGED content
  /\ CodeFrame

\* _review_code (lines 152-191)
ReviewCode ==
  /\ node = "review_code" /\ pc = "stage"
  /\ \/ CodeRaise
     \/ \E response \in ReviewResponses :
          /\ content' = PyStr(response)
          /\ CodeStageDone([state EXCEPT !.messages = Append(@, node),
                                         !.issues = FirstFive(IssuesOf(response))],
                           CodeEdges[node])
  /\ CodeFrame

\* _test_code (lines 193-222) and the conditional edge of lines 44-51
TestCode ==
  /\ node = "test_code" /\ pc = "stage"
  /\ \/ CodeRaise
     \/ /\ LET tested ==
                 [state EXCEPT !.messages = Append(@, node),
                               !.suggestions =
                                  IF state.issues # <<>> /\ Len(state.issues) > 2
                                  THEN Append(@, "Code needs optimization before finalizing")
                                  ELSE @]
           IN CodeStageDone(tested, ConditionalEdges[should_optimize(tested)])
        /\ UNCHANGED content
  /\ CodeFrame

\* _optimize_code (lines 230-259)
OptimizeCode ==
  /\ node = "optimize_code" /\ pc = "stage"
  /\ \/ CodeRaise
     \/ /\ CodeStageDone([state EXCEPT !.messages = Append(@, node),
                                       !.code = <<"optimized code">>,
                                       !.suggestions = Append(@, "Code optimized successfully")],
                         CodeEdges[node])
        /\ UNCHANGED content
  /\ CodeFrame

\* _document_code (lines 261-289)
DocumentCode ==
  /\ node = "document_code" /\ pc = "stage"
  /\ \/ CodeRaise
     \/ /\ CodeStageDone([state EXCEPT !.messages = Append(@, node),
                                       !.code = <<"documented code">>],
                         CodeEdges[node])
        /\ UNCHANGED content
  /\ CodeFrame

\* _generate_final_output (lines 291-321)
GenerateFinalOutput ==
  /\ node = "generate_final_output" /\ pc = "stage"
  /\ \/ CodeRaise
     \/ /\ CodeStageDone([state EXCEPT !.messages = Append(@, node),
                                       !.final_output = <<"final output">>],
                         CodeEdges[node])
        /\ UNCHANGED content
  /\ CodeFrame

\* lines 351-360: the graph reached END
CodeRunReturn ==
  /\ node = "END" /\ pc = "stage"
  /\ result' = [returned |-> TRUE, success |-> TRUE, final_code |-> state.code,
                final_output |-> state.final_output, analysis |-> state.analysis,
                issues |-> state.issues, suggestions |-> state.suggestions,
                steps |-> Len(state.messages)]
  /\ pc' = "done"
  /\ UNCHANGED <<env, node, state, discovered_files, rag_context, sources,
                 analysis_results, content, target_files, edits, idx, trace, log,
                 attempted, given, generated>>

InitCode ==
  /\ disk = {}
  /\ unreadable = {}
  /\ rag_service = NoRetriever
  /\ tree_sitter_service = "none"
  /\ given = PyList(<<>>)
  /\ Idle
  /\ Alone

NextCode ==
  \/ CodeRun
  \/ AnalyzeRequirements
  \/ DesignArchitecture
  \/ GenerateCode
  \/ ReviewCode
  \/ TestCode
  \/ OptimizeCode
  \/ DocumentCode
  \/ GenerateFinalOutput
  \/ CodeRunReturn

SpecCode == InitCode /\ [][NextCode]_vars

\* invoke runs the graph until it ends: a stage that can run does run
SpecCodeFair == SpecCode /\ WF_vars(NextCode)

\* ------------------------------------------------------------------------
\* Properties
\* ------------------------------------------------------------------------
StageOrder == <<"analyze_context", "plan_changes", "generate_content">>

\* every stage entered and left once, in order
FullTrace ==
  [i \in 1..2 * Len(StageOrder) |->
     Event(IF i % 2 = 1 THEN "enter" ELSE "exit", StageOrder[(i + 1) \div 2])]

IsPrefix(s, t) == Len(s) <= Len(t) /\ \A i \in 1..Len(s) : s[i] = t[i]

Raised == \E i \in 1..Len(trace) : trace[i].ev = "raise"

\* C1 as stated: in every run the three stages execute exactly once each, in
\* the order analyze_context, plan_changes, generate_content.
C1_EveryRunAllStages == pc = "done" => trace = FullTrace

\* C1 as amended: the stages are entered in the order analyze_context,
\* plan_changes, generate_content, each at most once and each leaving before
\* the next is entered; a run in which no stage raises executes all three
\* exactly once, and a stage that raises ends the run with no later stage
\* entered.
C1_StagesInOrder ==
  /\ \/ IsPrefix(trace, FullTrace)
     \/ /\ Len(trace) >= 2
        /\ IsPrefix(SubSeq(trace, 1, Len(trace) - 1), FullTrace)
        /\ trace[Len(trace) - 1].ev = "enter"
        /\ Last(trace) = Event("raise", trace[Len(trace) - 1].node)
  /\ (pc = "done" /\ result.success) => trace = FullTrace
  /\ (pc = "done" /\ ~result.success) => Last(trace).ev = "raise"
  /\ (pc # "done" /\ node \in Stages /\ trace # <<>> /\ Last(trace).ev = "enter")
        => Last(trace).node = node

C1_Witness == pc = "done" /\ result.success /\ trace = FullTrace /\ Len(edits) = 2

\* C2: a model-call failure for one target file in Phase B does not abort the
\* batch: every other target is still attempted and its EditRecord is in the
\* edits returned by run.
C2_ModelFailureKeepsBatch ==
  (/\ pc = "done"
   /\ Raised
   /\ Last(trace).node = "generate_content"
   /\ Last(log) = LogEntry("Multi-file workflow error", <<"model call failed">>))
  => /\ attempted = target_files.v
     /\ \A i \in 1..Len(target_files.v) :
          i # idx => \E k \in 1..Len(result.edits.v) :
                        result.edits.v[k].file_path = target_files.v[i]

\* C3: run never raises.  When all stages completed it returns success=true
\* with the analysis, plan and edits of the final state and a summary; when a
\* stage raised it returns exactly success=false, an error text and edits=[],
\* whatever the failed run had already produced.
C3_RunResult ==
  /\ result.returned <=> pc = "done"
  /\ Raised => pc = "done" /\ ~result.success
  /\ (pc = "done" /\ trace = FullTrace) => result.success
  /\ (pc = "done" /\ result.success) =>
        /\ DOMAIN result = {"returned", "success", "analysis", "plan", "edits", "summary"}
        /\ trace = FullTrace
        /\ result.analysis = state.analysis
        /\ result.plan = state.plan
        /\ result.edits = PyList(edits)
        /\ result.summary = <<"Generated ", Len(edits), " edits">>
  /\ (pc = "done" /\ ~result.success) =>
        /\ DOMAIN result = {"returned", "success", "error", "edits"}
        /\ result.edits = PyList(<<>>)
        /\ Raised

C3_Witness ==
  /\ pc = "done" /\ ~result.success
  /\ edits # <<>> /\ Truthy(state.analysis) /\ Truthy(state.plan)

\* state.files holds the list written at line 432
Stored ==
  /\ IsList(given)
  /\ \/ node = "analyze_context" /\ pc = "files_loop"
     \/ node \notin {"idle", "analyze_context"}

AnalysisWritten == \E i \in 1..Len(trace) : trace[i] = Event("exit", "analyze_context")


RagFailedAt(where) ==
  \E i \in 1..Len(log) : log[i] = LogEntry("RAG discovery failed", <<where>>)

RagFailed == RagFailedAt("query") \/ RagFailedAt("source")

\* C4: for every explicit file list and every retriever behaviour (absent,
\* answering, raising at any point) the file list stored on the state holds
\* every explicit file and holds no path twice.
C4_ExplicitFilesKept ==
  Stored => /\ Range(given.v) \subseteq Range(state.files.v)
            /\ NoDuplicates(state.files.v)

C4_Witness ==
  /\ Stored
  /\ Len(given.v) = 2 /\ given.v[1] = given.v[2]
  /\ RagFailedAt("source")
  /\ Cardinality(Range(state.files.v)) = 2

\* the sources the retriever answers with
RetrieverSources == query_with_context(rag_service.docs).sources

\* the source exists neither directly nor under the indexed root
NonResolving(source) ==
  /\ ~Exists(source)
  /\ ~(Truthy(rag_service.current_indexed_path)
       /\ Exists(PathJoin(rag_service.current_indexed_path.v, source)))

\* C5 as stated: a source of the retriever response that exists neither
\* directly nor under the indexed root does not appear in the file set
\* produced by _analyze_context.
C5_NonResolvingAbsent ==
  (rag_service.present /\ Stored /\ ~RagFailed) =>
     \A i \in 1..Len(RetrieverSources) :
        NonResolving(RetrieverSources[i]) =>
           PyStr(RetrieverSources[i]) \notin Range(state.files.v)

\* C5 as amended: discovery never adds a source (a bare file name, as the
\* retriever reports it) that exists neither directly nor under the indexed
\* root; such a name is in the produced file set only if the explicit file
\* list already held it.
C5_NonResolvingNotAdded ==
  (rag_service.present /\ Stored) =>
     \A i \in 1..Len(RetrieverSources) :
        (/\ NonResolving(RetrieverSources[i])
         /\ PyStr(RetrieverSources[i]) \in Range(state.files.v))
        => PyStr(RetrieverSources[i]) \in Range(given.v)

C5_Witness ==
  /\ rag_service.present /\ Stored /\ ~RagFailed
  /\ Range(state.files.v) # Range(given.v)
  /\ \E i \in 1..Len(RetrieverSources) :
       /\ RetrieverSources[i] # <<"unknown">>
       /\ NonResolving(RetrieverSources[i])
       /\ PyStr(RetrieverSources[i]) \notin Range(state.files.v)

\* the analysis text starts with the RAG context section
HasRagSection(text) == Len(text) > 0 /\ text[1] = RagHeader[1]

AnalyzeRaised == \E i \in 1..Len(trace) : trace[i] = Event("raise", "analyze_context")

HeaderLines(lines) == SelectSeq(lines, LAMBDA l : Len(l) > 0 /\ l[1] = "--- File: ")

\* one header for every file that exists and can be read, in list order
ExpectedHeaders(files) ==
  LET ok == SelectSeq(files, LAMBDA f : Exists(f.v) /\ f.v \notin unreadable)
  IN [i \in 1..Len(ok) |-> FileHeader(ok[i].v)]

\* the files the loop of lines 442-466 has gone through
Analysed ==
  IF node = "analyze_context" /\ pc = "files_loop"
  THEN SubSeq(state.files.v, 1, idx - 1)
  ELSE state.files.v

\* C7: a file whose read fails is skipped without aborting the analysis: it
\* contributes no section, and every readable existing file of the set has
\* its section, in list order.
C7_UnreadableSkipped ==
  /\ Stored => HeaderLines(analysis_results) = ExpectedHeaders(Analysed)
  /\ AnalysisWritten => state.analysis = PyStr(JoinLines(analysis_results))
  /\ ~AnalyzeRaised \/ ~IsList(given)

C7_Witness ==
  /\ AnalysisWritten
  /\ Len(state.files.v) = 2
  /\ state.files.v[1].v \in unreadable
  /\ Exists(state.files.v[2].v)
  /\ Len(HeaderLines(analysis_results)) = 1

\* the bracketed part of the response parses, and parses to the empty list
ParsedEmptyList(body) ==
  LET match == BracketMatch(body)
  IN /\ match.found
     /\ json_loads(match.text).ok \/ literal_eval(match.text).ok
     /\ ParseBracketed(body) = PyList(<<>>)

\* C8: when the target-file response of the model yields an empty list, the
\* targets are exactly the known files, and they are not empty when the known
\* files are not.
C8_EmptyListDegrades ==
  (IsStr(content) /\ ParsedEmptyList(content.v)) =>
     /\ target_files = state.files
     /\ Len(state.files.v) > 0 => Len(target_files.v) > 0

HasComma(body) == \E i \in 1..Len(body) : body[i] = ","

\* C9 as stated: the response "I think we need app.py, utils.py" resolves to
\* the file names alone.
C9_ScenarioFileNames ==
  content = PyStr(ScenarioResponse) =>
     target_files = PyList(<<PyStr(<<"app.py">>), PyStr(<<"utils.py">>)>>)

\* C9 as amended: the response "I think we need app.py, utils.py" resolves by
\* the comma split to the pieces between the commas, each trimmed of blanks
\* and then of double quotes at its ends: "I think we need app.py" and
\* "utils.py"; the words before a file name stay in its piece.  In general a
\* response with a comma and no bracketed part gives one target per piece.
C9_ScenarioPieces ==
  /\ content = PyStr(ScenarioResponse) =>
        target_files =
          PyList(<<PyStr(<<"I", " ", "think", " ", "we", " ", "need", " ", "app.py">>),
                   PyStr(<<"utils.py">>)>>)
  /\ (IsStr(content) /\ HasComma(content.v) /\ ~BracketMatch(content.v).found) =>
        /\ Len(target_files.v) = Cardinality({i \in 1..Len(content.v) : content.v[i] = ","}) + 1
        /\ \A k \in 1..Len(target_files.v) :
             LET piece == target_files.v[k]
             IN /\ IsStr(piece)
                /\ ~HasComma(piece.v)
                /\ Len(piece.v) > 0 => piece.v[1] # "\"" /\ Last(piece.v) # "\""

C9_Witness ==
  /\ node = "generate_content" /\ pc = "targets_loop"
  /\ content = PyStr(ScenarioResponse)
  /\ Len(target_files.v) = 2

IsNonEmptyListOfStrings(x) ==
  IsList(x) /\ Len(x.v) > 0 /\ \A i \in 1..Len(x.v) : IsStr(x.v[i])

\* the arrays of strings that some bracketed part of the text is the JSON of
ValidArrays(body) ==
  {json_loads(SubSeq(body, i, j)).val :
     <<i, j>> \in {p \in (1..Len(body)) \X (1..Len(body)) :
                    /\ p[1] < p[2] /\ body[p[1]] = "[" /\ body[p[2]] = "]"
                    /\ json_loads(SubSeq(body, p[1], p[2])).ok
                    /\ IsNonEmptyListOfStrings(json_loads(SubSeq(body, p[1], p[2])).val)}}

FilePathsOf(records) == [i \in 1..Len(records) |-> records[i].file_path]

\* C10 as stated: when the response contains a bracketed substring that is a
\* valid non-empty JSON array of strings, Phase B attempts exactly the files
\* of that array, in that order.
C10_AnyBracketedArrayWins ==
  (IsStr(content) /\ ValidArrays(content.v) # {}) =>
     /\ target_files \in ValidArrays(content.v)
     /\ IsPrefix(attempted, target_files.v)

\* C10 as amended: when the text from the first "[" to the last "]" of the
\* response is a valid non-empty JSON array of strings, strict JSON parsing
\* wins over every later fallback: the targets are exactly that array, Phase
\* B attempts files of that array only and in that order, up to the first
\* file whose read or model call raises, and all of them in a run that
\* returns success=true.
C10_WholeMatchArrayWins ==
  IsStr(content) =>
    LET match == BracketMatch(content.v)
        parsed == json_loads(match.text)
    IN (match.found /\ parsed.ok /\ IsNonEmptyListOfStrings(parsed.val)) =>
          /\ target_files = parsed.val
          /\ IsPrefix(attempted, parsed.val.v)
          /\ (pc = "done" /\ result.success) =>
                /\ attempted = parsed.val.v
                /\ FilePathsOf(result.edits.v) = parsed.val.v

C10_Witness ==
  /\ pc = "done" /\ result.success
  /\ HasComma(content.v)
  /\ attempted = <<PyStr(<<"a.py">>), PyStr(<<"b.py">>)>>
  /\ state.files # target_files

\* the value the parse ladder ends with, before the last fallback
LadderValue == FallbackTargets(content.v, ParseBracketed(content.v), state.files)

\* C11: when the value parsed from the target-file response is empty or is
\* not a sequence of strings, Phase A falls back to the known files; hence
\* every target that Phase B processes is a string.
C11_TargetsAreStrings ==
  /\ (IsStr(content) /\ ~IsNonEmptyListOfStrings(LadderValue)) =>
        target_files = state.files
  /\ \A i \in 1..Len(attempted) : IsStr(attempted[i])

\* the run failed inside Phase B before the model was asked about the target
FailedOnTarget ==
  /\ pc = "done" /\ ~result.success
  /\ result.error = <<"file error">>
  /\ Len(attempted) > 0

\* C12: a malformed model output never makes the run report success=false: a
\* run that fails on a target fails because the file of a well-formed target
\* could not be read, never because of what the model answered.
C12_MalformedOutputRecovered ==
  FailedOnTarget =>
     /\ IsStr(Last(attempted))
     /\ Last(attempted).v \in unreadable

GenerateReturned == Event("exit", "generate_content") \in Range(trace)

EditRecords ==
  Range(edits) \cup (IF result.returned THEN Range(result.edits.v) ELSE {})

\* C14 as stated: a PatchEdit never carries a new_content field and a
\* CreateEdit never carries a hunks field.
C14_DisjointFields ==
  \A e \in EditRecords :
     /\ ~e.is_new => "new_content" \notin DOMAIN e
     /\ e.is_new => "hunks" \notin DOMAIN e

\* C14 as amended: every EditRecord is of exactly one variant, told by
\* is_new.  A PatchEdit (is_new=false) has the fields file_path, hunks and
\* is_new, and never new_content; a CreateEdit (is_new=true) has file_path,
\* new_content and is_new, and also a hunks field, which is always the empty
\* list.
C14_OneVariant ==
  \A e \in EditRecords :
     /\ e.is_new \in BOOLEAN
     /\ ~e.is_new => DOMAIN e = {"file_path", "hunks", "is_new"}
     /\ e.is_new => /\ DOMAIN e = {"file_path", "new_content", "hunks", "is_new"}
                    /\ e.hunks = <<>>

C14_Witness ==
  /\ pc = "done" /\ result.success
  /\ \E e \in Range(result.edits.v) : ~e.is_new /\ e.hunks # <<>>
  /\ \E e \in Range(result.edits.v) : e.is_new /\ e.new_content = <<"code">>

\* C15: the EditRecord of a target is a PatchEdit (is_new=false, built from
\* the hunks of the response) exactly when the path existed on disk at the
\* existence check, and a CreateEdit (is_new=true, full content) exactly when
\* it did not.  The disk does not change during the invocation.
C15_VariantFollowsExistence ==
  \A i \in 1..Len(edits) :
     LET e == edits[i]
     IN IsStr(e.file_path) =>
          /\ ~e.is_new <=> Exists(e.file_path.v)
          /\ ~e.is_new => e = PatchEdit(e.file_path, generated[i])
          /\ e.is_new => e = CreateEdit(e.file_path, generated[i])

C15_Witness ==
  /\ Len(edits) = 2
  /\ Exists(edits[1].file_path.v) /\ ~edits[1].is_new
  /\ ~Exists(edits[2].file_path.v) /\ edits[2].is_new

\* C16: hunk extraction round-trips: for every search text and replace text,
\* the delimiter template filled with them parses to exactly one hunk whose
\* search and replace are the same texts verbatim, leading blank lines
\* included.
C16_HunkRoundTrip ==
  \A i \in 1..Len(edits) :
     ~edits[i].is_new =>
        \A s \in HunkTexts, r \in HunkTexts :
           (Len(generated[i]) = Len(s) + Len(r) + 11 /\ generated[i] = Template(s, r)) =>
              edits[i].hunks = <<[search |-> s, replace |-> r]>>

\* the hunks of the blocks a response was composed of, in order
ExpectedHunks(blocks) ==
  [i \in 1..Len(blocks) |-> [search |-> blocks[i][2], replace |-> blocks[i][3]]]

ScenarioPatch ==
  <<"Plan: edit main.py", "\n", "<<<<<<<", " ", "SEARCH", "\n", "foo()", "\n",
    "=======", "\n", "bar()", "\n", ">>>>>>>", " ", "REPLACE">>

\* C17: for an existing file every well-formed SEARCH/REPLACE block of the
\* response becomes one hunk, in order of occurrence, and the text outside
\* the blocks is ignored; the response "Plan: edit main.py" followed by one
\* block with search foo() and replace bar() gives one PatchEdit with
\* hunks=[{search: foo(), replace: bar()}] and is_new=false.
C17_BlocksBecomeHunks ==
  \A i \in 1..Len(edits) :
     Exists(edits[i].file_path.v) =>
        /\ generated[i] = ScenarioPatch =>
              edits[i] = [file_path |-> edits[i].file_path,
                          hunks |-> <<[search |-> <<"foo()">>, replace |-> <<"bar()">>]>>,
                          is_new |-> FALSE]
        /\ \A bl \in BlockLists, tail \in Tails :
              generated[i] = Compose(bl) \o tail =>
                 /\ ~edits[i].is_new
                 /\ edits[i].hunks = ExpectedHunks(bl)

C17_Witness ==
  /\ Len(edits) = 1 /\ ~edits[1].is_new
  /\ Len(edits[1].hunks) = MaxBlocks
  /\ edits[1].hunks[1] # edits[1].hunks[2]
  /\ \E bl \in BlockLists : generated[1] = Compose(bl) \o <<"\n", "Done.">>

\* the text has no SEARCH marker followed by a divider and a REPLACE marker
NoBlock(text) ==
  ~\E a, b, c \in 1..Len(text) :
      /\ a < b /\ b < c
      /\ text[a] = "<<<<<<<" /\ text[b] = "=======" /\ text[c] = ">>>>>>>"

\* C18: for an existing file, a response with no well-formed SEARCH/REPLACE
\* block yields a PatchEdit with an empty hunk list; it is not an error: the
\* loop goes on to the other targets, and a run in which every attempted
\* target got its record reports success with all the records.
C18_HunklessIsNoError ==
  /\ \A i \in 1..Len(edits) :
        (Exists(edits[i].file_path.v) /\ NoBlock(generated[i])) =>
           edits[i] = [file_path |-> edits[i].file_path, hunks |-> <<>>, is_new |-> FALSE]
  /\ (node = "generate_content" /\ Len(edits) > 0) =>
        /\ pc = "targets_loop" /\ result = NoResult
        /\ idx = Len(edits) + 1
        /\ ENABLED (GenerateFile \/ GenerateEnd)
  /\ (pc = "done" /\ Len(edits) > 0 /\ Len(edits) = Len(attempted)) =>
        /\ result.success
        /\ result.edits = PyList(edits)

C18_Witness ==
  /\ pc = "done" /\ result.success
  /\ Len(result.edits.v) = 2
  /\ Exists(result.edits.v[1].file_path.v)
  /\ "SEARCH" \in Range(generated[1]) /\ NoBlock(generated[1])
  /\ result.edits.v[1].hunks = <<>>

\* the newline that ends the line of an opening fence at o (0 when the fence
\* is followed by something else than an optional word and a newline)
OpeningLineEnd(text, o) ==
  LET w == Skip(text, o + 1, WordAtoms)
  IN IF w <= Len(text) /\ text[w] = "\n" THEN w ELSE 0

\* fenced blocks: an opening fence line at o and a closing fence c that
\* starts a later line
FencedBlocks(text) ==
  {b \in (1..Len(text)) \X (1..Len(text)) :
     /\ text[b[1]] = Fence /\ text[b[2]] = Fence
     /\ OpeningLineEnd(text, b[1]) # 0
     /\ b[2] > OpeningLineEnd(text, b[1])
     /\ text[b[2] - 1] = "\n"}

\* the text between the fence lines of the first fenced block
FirstBlockInner(text) ==
  LET o == Min({b[1] : b \in FencedBlocks(text)})
      c == Min({b[2] : b \in {x \in FencedBlocks(text) : x[1] = o}})
  IN SubSeq(text, OpeningLineEnd(text, o) + 1, c - 2)

\* C19: for every CreateEdit, when the response contains a fenced code block
\* new_content is the inner text of the first fenced block, without the
\* fences, and when it contains none new_content is the full response.
C19_FencesStripped ==
  \A i \in 1..Len(edits) :
     edits[i].is_new =>
        edits[i].new_content =
          IF FencedBlocks(generated[i]) # {}
          THEN FirstBlockInner(generated[i])
          ELSE generated[i]

\* the step is the one in which stage n returns, for the first time
Returns(n) ==
  /\ node = n
  /\ trace' # trace /\ Last(trace') = Event("exit", n)
  /\ Event("exit", n) \notin Range(trace)

\* what a step of a started invocation may do to the fields of the state
FrameStep ==
  node # "idle" =>
     /\ state'.task = state.task
     /\ state'.files # state.files => node = "analyze_context"
     /\ state'.analysis # state.analysis => Returns("analyze_context")
     /\ state'.plan # state.plan => Returns("plan_changes")
     /\ state'.edits # state.edits => Returns("generate_content")

\* C20: each field of the workflow state is written by one stage only: task
\* never changes after creation, the file set is written only by
\* analyze_context, analysis once by analyze_context, plan once by
\* plan_changes and edits only by generate_content.
C20_FieldsWrittenByOneStage == [][FrameStep]_vars

C20_Witness ==
  /\ pc = "done" /\ result.success
  /\ state.task = PyStr(TaskText)
  /\ state.files # given
  /\ state.analysis # PyStr(<<>>) /\ state.plan # PyStr(<<>>)
  /\ Len(state.edits.v) > 0
  /\ state.files # target_files

\* a step leaves the filesystem as it found it
ReadOnlyStep ==
  /\ disk' = disk
  /\ unreadable' = unreadable
  /\ \A i \in 1..Len(edits') :
       edits'[i].is_new => ~(edits'[i].file_path.v \in disk')

\* C21: no stage of the workflow writes to the filesystem: across any run
\* the files on disk are unchanged, and what was generated exists only in the
\* edit list (the file of a CreateEdit is still not on disk).
C21_FilesystemUnchanged == [][ReadOnlyStep]_vars

C21_Witness ==
  /\ pc = "done" /\ result.success
  /\ \E e \in Range(result.edits.v) : e.is_new /\ e.new_content # <<>> /\ ~Exists(e.file_path.v)
  /\ \E e \in Range(result.edits.v) : ~e.is_new /\ e.hunks # <<>> /\ Exists(e.file_path.v)

\* what the state record of invocation id may hold, given its files argument
OwnState(id, st, files_argument) ==
  st # NoState =>
     /\ st.task = PyStr(TaskOf(id))
     /\ IsList(st.files)
     /\ Range(files_argument.v) \subseteq Range(st.files.v)
     /\ Range(st.files.v) \subseteq
          Range(files_argument.v) \cup {PyStr(PathJoin(IndexedRoot, <<"b.py">>))}
     /\ IsList(st.edits) /\ IsStr(st.plan) /\ IsStr(st.analysis)

\* a step of one invocation leaves the other invocation and the retriever
\* alone, and each state record stays the one of its own request
IsolatedStep ==
  /\ running' = running =>
        /\ suspended' = suspended
        /\ given' = given
  /\ running' # running =>
        /\ suspended' = Saved
        /\ state' = suspended.state
  /\ rag_service' = rag_service
  /\ OwnState(running, state, given)'
  /\ OwnState(suspended.id, suspended.state, suspended.given)'

\* C22: two interleaved invocations of run on the shared workflow instance
\* do not share mutable state: each owns its state record, no stage of one
\* changes the task, files, analysis, plan or edits of the other, and no
\* stage assigns the current_indexed_path of the retriever.
C22_InvocationsIsolated == [][IsolatedStep]_vars

C22_Witness ==
  /\ suspended.id # 0
  /\ node = "plan_changes" /\ state.analysis # PyStr(<<>>)
  /\ suspended.node = "generate_content" /\ Len(suspended.edits) = 1
  /\ state.task # suspended.state.task
  /\ state.files # suspended.state.files

\* ---- C23 ----
ErrorLine == <<"Structure: (Error: ", "message", ")">>

Recorded(file_path) ==
  \E k \in 1..Len(analysis_results) : analysis_results[k] = FileHeader(file_path)

\* the lines of the analysis after the header of file_path
LinesAfterHeader(file_path) ==
  LET k == CHOOSE k \in 1..Len(analysis_results) :
             analysis_results[k] = FileHeader(file_path)
  IN SubSeq(analysis_results, k + 1, Len(analysis_results))

StructureUnavailable(file_path) ==
  /\ Recorded(file_path)
  /\ LinesAfterHeader(file_path) # <<>>
  /\ Head(LinesAfterHeader(file_path)) = ErrorLine

\* the extension names a language whose grammar is not loaded
MissingGrammar(service, file_path) ==
  LanguageOf(file_path) # "" /\ LanguageOf(file_path) \notin Parsers(service)

\* C23: parse_file never raises; on a parse failure, a missing grammar among
\* them, it returns a result with the key error, and the analyzer records the
\* file as structure-unavailable and continues with the remaining files.
C23_FailureRecordedAsError ==
  /\ ~AnalyzeRaised
  /\ \A i \in 1..Len(given.v) :
       (MissingGrammar(tree_sitter_service, given.v[i].v) /\ Recorded(given.v[i].v))
          => StructureUnavailable(given.v[i].v)

\* ---- C24 ----
\* the language the extension of each file name stands for
ExpectedLanguage(name) ==
  CASE name = "m.PY" -> "python"
    [] name \in {"u.js", "v.jsx"} -> "javascript"
    [] name \in {"w.TS", "t.tsx"} -> "typescript"
    [] OTHER -> "unknown"

UnsupportedLines ==
  <<<<"Structure: Language=", "unknown">>, <<"Classes=", "[]">>, <<"Functions=", "[]">>>>

StartsWith(lines, prefix) ==
  Len(lines) >= Len(prefix) /\ SubSeq(lines, 1, Len(prefix)) = prefix

\* C24: parse_file maps .py to python, .js/.jsx to javascript and .ts/.tsx to
\* typescript, whatever the case of the extension; any other extension gives
\* the record language unknown / structure Not supported without the key error,
\* and the analysis of that file and of the files after it completes.
C24_ExtensionMapsToLanguage ==
  /\ \A i \in 1..Len(given.v) :
       LET f == given.v[i].v
           expected == ExpectedLanguage(Last(f))
       IN /\ (expected = "unknown") =>
                parse_file(tree_sitter_service, f, FALSE) =
                   [kind |-> "unsupported", language |-> <<"unknown">>]
          /\ (expected # "unknown" /\ expected \in Parsers(tree_sitter_service)) =>
                parse_file(tree_sitter_service, f, FALSE) =
                   [kind |-> "parsed", language |-> <<expected>>]
          /\ Recorded(f) =>
               IF expected = "unknown"
               THEN StartsWith(LinesAfterHeader(f), UnsupportedLines)
               ELSE expected \in Parsers(tree_sitter_service) =>
                      Head(LinesAfterHeader(f)) \in
                         {<<"Structure: Language=", expected>>, ErrorLine}
  /\ ~AnalyzeRaised
  /\ (pc = "files_loop" /\ node = "analyze_context") => ENABLED NextTree
  /\ AnalysisWritten =>
       /\ HeaderLines(analysis_results) = ExpectedHeaders(given.v)
       /\ state.analysis = PyStr(JoinLines(analysis_results))

\* an unsupported file was analysed before a TypeScript file with an upper-case
\* extension, and the analysis was written
C24_Witness ==
  /\ AnalysisWritten
  /\ tree_sitter_service = "all"
  /\ given = PyList(<<PyStr(<<"r.md">>), PyStr(<<"w.TS">>)>>)
  /\ analysis_results =
       <<FileHeader(<<"r.md">>)>> \o UnsupportedLines
         \o <<FileHeader(<<"w.TS">>), <<"Structure: Language=", "typescript">>,
              <<"Classes=", "[]">>, <<"Functions=", "[]">>>>

\* ---- C25 ----
\* the query of line 409 returned, and with a context that is not empty
ContextReturned ==
  /\ rag_service.present
  /\ ~RagFailedAt("query")
  /\ query_with_context(rag_service.docs).context.v # <<>>

\* the RAG context section of the analysis, when there is one
ExpectedRagPart ==
  IF ContextReturned
  THEN <<RagHeader, query_with_context(rag_service.docs).context.v \o <<"\n">>>>
  ELSE <<>>

IsFileHeader(l) == Len(l) > 0 /\ l[1] = "--- File: "

IsStructureLine(l) ==
  Len(l) > 0 /\ l[1] \in {"Structure: Language=", "Structure: (Error: ",
                          "Structure: (Tree-sitter not available)"}

\* C25: the analysis document is the RAG context section, present exactly
\* when the retriever returned a context that is not empty, placed before all
\* file sections, followed by one labeled section per readable existing file
\* in the order of the discovered file list; files that do not exist
\* contribute nothing.
C25_AnalysisDocument ==
  /\ Stored =>
       LET rest == SubSeq(analysis_results, Len(ExpectedRagPart) + 1, Len(analysis_results))
       IN /\ StartsWith(analysis_results, ExpectedRagPart)
          /\ \A k \in 1..Len(rest) : rest[k] # RagHeader
          /\ HeaderLines(rest) = ExpectedHeaders(Analysed)
          /\ rest # <<>> => IsFileHeader(rest[1])
          /\ \A k \in 1..Len(rest) :
               IsFileHeader(rest[k]) => k < Len(rest) /\ IsStructureLine(rest[k + 1])
  /\ AnalysisWritten /\ IsList(given) => state.analysis = PyStr(JoinLines(analysis_results))

\* a retrieved context, two file sections and a discovered list with a file
\* that does not exist
C25_Witness ==
  /\ AnalysisWritten /\ IsList(given)
  /\ ContextReturned
  /\ Len(HeaderLines(analysis_results)) = 2
  /\ \E i \in 1..Len(state.files.v) : ~Exists(state.files.v[i].v)

\* ---- C27 ----
\* C27: every path that RAG discovery adds to the file set exists on disk
\* when it is added: the path added is the one whose existence was checked,
\* also when the source exists relative to the working directory while an
\* indexed root is set.
C27_AddedPathsExist ==
  (node = "analyze_context" /\ IsList(given)) =>
     \A f \in discovered_files \ Range(given.v) : Exists(f.v)

\* ---- C28 ----
\* the model call of Phase A raised (line 532) and was caught at line 552
PhaseAFailed ==
  \E i \in 1..Len(log) :
     log[i] = LogEntry("Failed to parse target files", <<"model call failed">>)

\* C28: if the Phase A model call itself raises, the failure is caught inside
\* _generate_content, the targets become the known files, and Phase B runs
\* for each of them in order; that failure alone does not make the run
\* return success=false: a failed run has a Phase B iteration that raised.
C28_PhaseAFailureCaught ==
  PhaseAFailed =>
    /\ target_files = state.files
    /\ IsPrefix(attempted, state.files.v)
    /\ (node = "generate_content" /\ pc = "targets_loop") => result = NoResult
    /\ GenerateReturned =>
         /\ attempted = state.files.v
         /\ FilePathsOf(state.edits.v) = state.files.v
    /\ result.returned =>
         IF GenerateReturned
         THEN result.success /\ result.edits = state.edits
         ELSE /\ ~result.success
              /\ attempted # <<>>
              /\ Last(trace) = Event("raise", "generate_content")

\* Phase A raised, Phase B produced an edit for the known file and the run
\* returned success
C28_Witness ==
  /\ PhaseAFailed
  /\ pc = "done" /\ result.returned /\ result.success
  /\ Len(result.edits.v) >= 1
  /\ FilePathsOf(result.edits.v) = state.files.v

\* ---- C26 ----
RECURSIVE NodesOf(_, _)
\* every node of the tree with its position
NodesOf(tree, path) ==
  {[path |-> path, node |-> tree]} \cup
  UNION {NodesOf(tree.children[i], Append(path, i)) : i \in 1..Len(tree.children)}

\* a named class declaration of the language
IsClass(n, language) ==
  /\ n.name # <<>>
  /\ n.type = (IF language = "python" THEN "class_definition" ELSE "class_declaration")

\* a named function or method of the language, or for JavaScript and
\* TypeScript a named declarator whose value is an arrow function
IsFunction(n, language) ==
  /\ n.name # <<>>
  /\ IF language = "python"
     THEN n.type = "function_definition"
     ELSE \/ n.type \in {"function_declaration", "method_definition"}
          \/ /\ n.type = "variable_declarator"
             /\ n.children # <<>>
             /\ n.children[Len(n.children)].type = "arrow_function"

\* position p comes before position q in depth-first pre-order: p is an
\* ancestor of q, or p is in the subtree of an earlier sibling
PreOrderBefore(p, q) ==
  \/ Len(p) < Len(q) /\ SubSeq(q, 1, Len(p)) = p
  \/ \E k \in 1..Min({Len(p), Len(q)}) :
       /\ SubSeq(p, 1, k - 1) = SubSeq(q, 1, k - 1)
       /\ p[k] < q[k]

\* names is the duplicate-free list, in pre-order, of the positions in which
\* the name of a declaration is its position
ListsInPreOrder(names, positions) ==
  /\ Range(names) = positions
  /\ \A i, j \in 1..Len(names) : i < j => PreOrderBefore(names[i], names[j])

\* C26: for every syntax tree the traversal appends the name of every named
\* class declaration to classes and of every named function or method (for
\* JavaScript and TypeScript also of declarators whose value is an arrow
\* function) to functions, each list in depth-first pre-order: a declaration
\* comes before those nested in it and those of its later siblings.
C26_ListsInPreOrder ==
  extracted # PyNone =>
    LET all == NodesOf(syntax_tree.root_node, <<>>)
        language == syntax_tree.language
    IN /\ ListsInPreOrder(extracted.classes,
                          {x.path : x \in {y \in all : IsClass(y.node, language)}})
       /\ ListsInPreOrder(extracted.functions,
                          {x.path : x \in {y \in all : IsFunction(y.node, language)}})

\* a function with a function nested in it, followed by a sibling function
C26_Witness ==
  /\ extracted # PyNone
  /\ syntax_tree.language = "python"
  /\ extracted.functions = <<<<1>>, <<1, 1>>, <<2>>>>

\* a class whose method holds an arrow function bound to a name
C26_WitnessArrow ==
  /\ extracted # PyNone
  /\ syntax_tree.language = "typescript"
  /\ extracted.classes = <<<<1>>>>
  /\ extracted.functions = <<<<1, 1>>>>
  /\ syntax_tree.root_node.children[1].children[1].type = "variable_declarator"

\* ---- C29 ----
\* reset_index was called and no index_codebase call has succeeded since
AfterReset ==
  \E i \in 1..Len(rag_history) :
     /\ rag_history[i].op = "reset"
     /\ \A j \in (i + 1)..Len(rag_history) :
          ~(rag_history[j].op = "index" /\ rag_history[j].success)

\* the last index operation was an index_codebase that failed on a directory
\* that exists
FailedOnExisting ==
  /\ rag_history # <<>>
  /\ Last(rag_history).op = "index"
  /\ Last(rag_history).entered
  /\ ~Last(rag_history).success

EmptyAnswer == [context |-> PyStr(<<>>), sources |-> <<>>]

\* the analyzer's query, line 409
QueryStep == node = "analyze_context" /\ pc = "rag_query" /\ pc' # "rag_query"

\* C29: after reset_index, and until an index_codebase call succeeds, every
\* query_with_context returns an empty context and an empty source list, so
\* the analyzer adds no discovered file; an index_codebase that fails on an
\* existing directory also leaves the store empty, while current_indexed_path
\* already points at the new directory.
C29_EmptyUntilIndexed ==
  /\ [](AfterReset => query_with_context(rag_service.docs) = EmptyAnswer)
  /\ [](FailedOnExisting =>
          /\ query_with_context(rag_service.docs) = EmptyAnswer
          /\ rag_service.current_indexed_path = PyStr(Last(rag_history).directory_path))
  /\ [][(AfterReset /\ QueryStep) =>
          /\ rag_context' = PyStr(<<>>)
          /\ sources' = <<>>
          /\ pc' = "store_files"
          /\ discovered_files' = Range(given.v)]_vars

\* the index was reset, then an index_codebase on a
\* directory without documents failed, and the analyzer's query found nothing
C29_Witness ==
  /\ Len(rag_history) = 2
  /\ rag_history[1].op = "reset"
  /\ FailedOnExisting
  /\ rag_service.current_indexed_path = PyStr(<<"empty">>)
  /\ AnalysisWritten /\ ~RagFailed
  /\ rag_context = PyStr(<<>>)
  /\ state.files = given
  /\ given = PyList(<<PyStr(<<"a.py">>)>>)

\* ---- C30 ----
\* the stages entered so far, in order
StagesRun ==
  LET entered == SelectSeq(trace, LAMBDA e : e.ev = "enter")
  IN [i \in 1..Len(entered) |-> entered[i].node]

FirstStages ==
  <<"analyze_requirements", "design_architecture", "generate_code", "review_code", "test_code">>

LastStages == <<"document_code", "generate_final_output">>

\* the lines of the review that hold one of the five words, in any case
ReviewIssueLines ==
  IF content = PyNone THEN <<>>
  ELSE SelectSeq(SplitLines(content.v, <<>>),
                 LAMBDA l : \E i \in 1..Len(l) :
                    l[i] \in {"Bug", "bug", "Problems", "problems"})

\* the order the stages have when the review recorded n issues
ExpectedOrder(n) ==
  FirstStages \o (IF n > 2 THEN <<"optimize_code">> ELSE <<>>) \o LastStages

\* C30: the stages of CodeWorkflow run in the fixed order analyze_requirements,
\* design_architecture, generate_code, review_code, test_code, then
\* optimize_code exactly when the review recorded more than 2 issues (the
\* issue list never holds more than 5), then document_code and
\* generate_final_output; each stage runs at most once, and the run always
\* reaches the end or returns success=false.
C30_StagesInOrder ==
  /\ [](node # "idle" =>
        /\ Len(state.issues) <= 5
        /\ Len(state.issues) = Min({5, Len(ReviewIssueLines)})
        /\ NoDuplicates(StagesRun)
        /\ Len(StagesRun) <= Len(FirstStages) => IsPrefix(StagesRun, FirstStages)
        /\ Len(StagesRun) > Len(FirstStages) =>
             IsPrefix(StagesRun, ExpectedOrder(Len(state.issues)))
        /\ result.returned =>
             IF result.success
             THEN /\ StagesRun = ExpectedOrder(Len(state.issues))
                  /\ result.issues = state.issues
                  /\ result.steps = Len(StagesRun)
             ELSE Last(trace).ev = "raise")
  /\ (node # "idle") ~> result.returned

\* a review with six lines that name a problem: five issues are kept and the
\* run goes through optimize_code to its end
C30_Witness ==
  /\ result.returned /\ result.success
  /\ Len(ReviewIssueLines) = 6
  /\ Len(result.issues) = 5
  /\ StagesRun = FirstStages \o <<"optimize_code">> \o LastStages

\* a review with two issues: the run ends without optimize_code
C30_WitnessDocument ==
  /\ result.returned /\ result.success
  /\ Len(result.issues) = 2
  /\ StagesRun = FirstStages \o LastStages

====
